---- MODULE Spec2Model ----
(***************************************************************************)
(* IOFAE trading bot: the Decision & Risk Engine.                          *)
(*                                                                         *)
(*   SpecRisk  RiskController (src/risk_controller.py) driven through its  *)
(*             public methods in every order.                              *)
(*   SpecMon   PositionManager (src/position_manager.py) monitoring one    *)
(*             open position tick after tick.                              *)
(*   Spec      IOFAEBot.run (src/main.py): the polling loop that ties the  *)
(*             two together with the collector, the venue and the store.   *)
(*                                                                         *)
(* Money is in tenths of the account currency, lots in hundredths of a     *)
(* standard lot (so one pip on one hundredth of a lot is one tenth), time  *)
(* in seconds, prices in whole pips (10500 is 1.0500).  The ratios of the  *)
(* configuration are kept as percentages so that the comparisons of the    *)
(* code are exact integer comparisons.                                     *)
(***************************************************************************)
EXTENDS Integers, Sequences, FiniteSets, TLC

VARIABLES
    risk,               \* the RiskController object (risk_controller.py:53-59)
    now,                \* datetime.now(), seconds
    ret,                \* the last RiskController method called and what it returned
    daily_limit_hit,    \* history: the daily limit was reached since the last reset_daily
    drawdown_hit,       \* history: the lifetime drawdown limit was reached in some state
    pm,                 \* the PositionManager object (position_manager.py:65-71)
    tick_buffer,        \* DataCollector._tick_buffer: the bids of the newest ticks
    venue,              \* the execution venue: the bot's open position, if any
    mon,                \* the last monitor_position call and what it returned
    feed_last,          \* environment: the market regime of the previous tick
    shifts,             \* environment: how often the market regime has changed
    account,            \* the venue's account balance
    today,              \* date.today(), counted in days
    current_date,       \* IOFAEBot._current_date
    db,                 \* DOMLogger: the trade rows written
    iter,               \* the last iteration of the run loop and how it went
    opened_today,       \* history: positions opened on the calendar day `today`
    polls,              \* iterations of the run loop so far
    market,             \* what a scan reads: the snapshot, the clock, the
                        \* configuration, the second instrument, the DOM store
    outcome             \* the last ScoreCalculator / SignalGenerator call and its result

riskObs == <<ret, daily_limit_hit, drawdown_hit>>
pmVars  == <<pm, tick_buffer, venue, mon, feed_last, shifts>>
sigVars == <<market, outcome>>
botVars == <<account, today, current_date, db, iter, opened_today, polls, sigVars>>

vars == <<risk, now, ret, daily_limit_hit, drawdown_hit,
          pm, tick_buffer, venue, mon, feed_last, shifts,
          account, today, current_date, db, iter, opened_today, polls,
          market, outcome>>

\* no scan is modelled: the specifications of the controller, the monitor and
\* the run loop leave these two alone
NoMarket  == [bid |-> 0]
NoOutcome == [op |-> "none"]

-----------------------------------------------------------------------------
(* Configuration: the defaults of RiskController.__init__ *)

MaxDailyLossPct  == 5        \* max_daily_loss 0.05
MaxTotalDDPct    == 10       \* max_total_drawdown 0.10
MaxTradesDay     == 3        \* max_trades_per_day
RiskPerTradePct  == 1        \* risk_per_trade 0.01
PipDollarValue   == 10       \* pip_dollar_value, per standard lot
MinTradeInterval == 10800    \* min_trade_interval_seconds

(* Bounds of the model *)

MaxRecorded    == 4          \* record_trade calls modelled per day
MaxTime        == 13800      \* the clock stops here
ShortWait      == 3000       \* a clock step shorter than the trade interval

NoTime == -1

InitBalances == {1000}                    \* the balance handed to initialize()
Balances == {900, 940, 960, 1000, 1050}   \* balances the account reports later
Profits  == {-60, -10, 20}                \* realised profits of closed trades
Waits    == {ShortWait, MinTradeInterval}

Max(a, b) == IF a >= b THEN a ELSE b
Abs(a)    == IF a < 0 THEN -a ELSE a

-----------------------------------------------------------------------------
(* RiskController.  Every method is an operator from the object r (and its  *)
(* arguments) to the object afterwards; t is the value of datetime.now().  *)

\* __init__ followed by initialize(balance), with no trade of today in the store
initialize(balance) ==
    [starting_balance |-> balance,
     highest_balance  |-> balance,
     today_starting   |-> balance,
     today_loss       |-> 0,
     today_trades     |-> 0,
     last_trade_time  |-> NoTime,
     bot_stopped      |-> FALSE]

\* (variant: the balance of the tick is not applied)
update_balance_stale(r, current_balance) ==
    r

\* (variant: the high-water balance follows the balance)
update_balance_follows(r, current_balance) ==
    [r EXCEPT
        !.highest_balance = current_balance,
        !.today_loss = IF current_balance < r.today_starting
                         THEN r.today_starting - current_balance
                         ELSE @]

update_balance(r, current_balance) ==
    [r EXCEPT
        !.highest_balance = IF current_balance > @ THEN current_balance ELSE @,
        !.today_loss = IF current_balance < r.today_starting
                         THEN r.today_starting - current_balance
                         ELSE @]

\* today_loss < today_starting * max_daily_loss
check_daily_loss(r) ==
    r.today_loss * 100 < r.today_starting * MaxDailyLossPct

\* (starting - (today_starting - today_loss)) / starting < max_total_dd
check_total_drawdown(r) ==
    (r.starting_balance - (r.today_starting - r.today_loss)) * 100
        < r.starting_balance * MaxTotalDDPct

check_trade_count(r) ==
    r.today_trades < MaxTradesDay

\* the interval check with the comparison turned round
check_trade_interval_never_waits(r, t) ==
    \/ r.last_trade_time = NoTime
    \/ t - r.last_trade_time <= MinTradeInterval

check_trade_interval(r, t) ==
    \/ r.last_trade_time = NoTime
    \/ t - r.last_trade_time >= MinTradeInterval

\* whole minutes, never negative
get_interval_remaining(r, t) ==
    IF r.last_trade_time = NoTime THEN 0
    ELSE Max(0, (MinTradeInterval - (t - r.last_trade_time)) \div 60)

\* can_trade with the trade-count check moved in front of the drawdown check
can_trade_count_first(r, t) ==
    IF r.bot_stopped
      THEN [ok |-> FALSE, kind |-> "STOPPED", val |-> 0, risk |-> r]
    ELSE IF ~check_daily_loss(r)
      THEN [ok |-> FALSE, kind |-> "DAILY_LOSS", val |-> r.today_loss, risk |-> r]
    ELSE IF ~check_trade_count(r)
      THEN [ok |-> FALSE, kind |-> "MAX_TRADES", val |-> r.today_trades, risk |-> r]
    ELSE IF ~check_total_drawdown(r)
      THEN [ok |-> FALSE, kind |-> "MAX_DRAWDOWN", val |-> 0,
            risk |-> [r EXCEPT !.bot_stopped = TRUE]]
    ELSE IF ~check_trade_interval(r, t)
      THEN [ok |-> FALSE, kind |-> "INTERVAL", val |-> get_interval_remaining(r, t),
            risk |-> r]
    ELSE [ok |-> TRUE, kind |-> "OK", val |-> 0, risk |-> r]

\* can_trade that latches on the daily limit as well
can_trade_latches_daily(r, t) ==
    IF r.bot_stopped
      THEN [ok |-> FALSE, kind |-> "STOPPED", val |-> 0, risk |-> r]
    ELSE IF ~check_daily_loss(r)
      THEN [ok |-> FALSE, kind |-> "DAILY_LOSS", val |-> r.today_loss,
            risk |-> [r EXCEPT !.bot_stopped = TRUE]]
    ELSE IF ~check_total_drawdown(r)
      THEN [ok |-> FALSE, kind |-> "MAX_DRAWDOWN", val |-> 0,
            risk |-> [r EXCEPT !.bot_stopped = TRUE]]
    ELSE IF ~check_trade_count(r)
      THEN [ok |-> FALSE, kind |-> "MAX_TRADES", val |-> r.today_trades, risk |-> r]
    ELSE IF ~check_trade_interval(r, t)
      THEN [ok |-> FALSE, kind |-> "INTERVAL", val |-> get_interval_remaining(r, t),
            risk |-> r]
    ELSE [ok |-> TRUE, kind |-> "OK", val |-> 0, risk |-> r]

\* can_trade: the pair (allowed, reason) and the object afterwards.  The
\* reason is the message's kind and the number the message carries.
can_trade(r, t) ==
    IF r.bot_stopped
      THEN [ok |-> FALSE, kind |-> "STOPPED", val |-> 0, risk |-> r]
    ELSE IF ~check_daily_loss(r)
      THEN [ok |-> FALSE, kind |-> "DAILY_LOSS", val |-> r.today_loss, risk |-> r]
    ELSE IF ~check_total_drawdown(r)
      THEN [ok |-> FALSE, kind |-> "MAX_DRAWDOWN", val |-> 0,
            risk |-> [r EXCEPT !.bot_stopped = TRUE]]
    ELSE IF ~check_trade_count(r)
      THEN [ok |-> FALSE, kind |-> "MAX_TRADES", val |-> r.today_trades, risk |-> r]
    ELSE IF ~check_trade_interval(r, t)
      THEN [ok |-> FALSE, kind |-> "INTERVAL", val |-> get_interval_remaining(r, t),
            risk |-> r]
    ELSE [ok |-> TRUE, kind |-> "OK", val |-> 0, risk |-> r]

record_trade(r, profit, t) ==
    [r EXCEPT
        !.today_trades = @ + 1,
        !.last_trade_time = t,
        !.today_loss = IF profit < 0 THEN @ + Abs(profit) ELSE @]

\* get_daily_stats reads the counters and calls can_trade()
get_daily_stats(r, t) ==
    can_trade(r, t)

\* (variant: the new day starts unlatched)
reset_daily_unlatches(r, new_balance) ==
    [r EXCEPT !.today_starting = new_balance, !.today_loss = 0, !.today_trades = 0,
              !.bot_stopped = FALSE]

reset_daily(r, new_balance) ==
    [r EXCEPT !.today_starting = new_balance, !.today_loss = 0, !.today_trades = 0]

stop_bot(r) ==
    [r EXCEPT !.bot_stopped = TRUE]

is_stopped(r) ==
    r.bot_stopped

\* What is observed of a call: the method and, for can_trade, its result
Returned(op, c) == [op |-> op, ok |-> c.ok, kind |-> c.kind, val |-> c.val]
NoReturn(op)    == [op |-> op, ok |-> FALSE, kind |-> "", val |-> 0]

-----------------------------------------------------------------------------
(* PositionManager (src/position_manager.py) and what it reads from the    *)
(* DataCollector and the execution venue.                                  *)

MaxHoldMinutes   == 15       \* max_hold_time_minutes
VolumeDropPct    == 70       \* volume_drop_threshold 0.70
SpreadWidenPct   == 150      \* spread_widen_threshold 1.50
PriceStallPips   == 2        \* price_stall_pips
MinSamples       == 20       \* samples a history needs before its check may fire
RecentSamples    == 5        \* the "recent" volumes
AverageWindow    == 50       \* the samples averaged once that many exist
HistoryKept      == 100      \* samples kept in each history
StallTicks       == 5        \* ticks the price-stall check looks at
TrailTriggerPips == 15       \* profit from which the stop is trailed
TrailLockPips    == 5        \* the trailed stop: entry plus this

MaxSamples == 20             \* bound: monitoring evaluations modelled per run
MaxShifts  == 1              \* bound: changes of the market regime per run

NoPos == [ticket |-> 0]

\* One polling tick of the market: the tick volume of the last ten seconds, the
\* spread, the bid, and the lowest bid and highest ask traded since the tick
\* before (the bar of the tick).
Quiet   == [vol |-> 10, spread |-> 1, bid |-> 10500, low |-> 10499, high |-> 10501]
UpDry   == [vol |-> 4,  spread |-> 1, bid |-> 10512, low |-> 10511, high |-> 10513]
UpWide  == [vol |-> 10, spread |-> 2, bid |-> 10513, low |-> 10512, high |-> 10515]
Down    == [vol |-> 10, spread |-> 1, bid |-> 10488, low |-> 10488, high |-> 10489]
Feeds   == {Quiet, UpDry, UpWide, Down}

\* ticks 16 pips either side of the entry of SpecMon's position
UpFar      == [vol |-> 10, spread |-> 1, bid |-> 10516, low |-> 10515, high |-> 10517]
DownFar    == [vol |-> 10, spread |-> 1, bid |-> 10483, low |-> 10483, high |-> 10484]
TrailFeeds == {Quiet, UpFar, DownFar}

RECURSIVE Sum(_)
Sum(s) == IF s = <<>> THEN 0 ELSE Head(s) + Sum(Tail(s))

\* s[-n:]
LastN(s, n) == IF Len(s) <= n THEN s ELSE SubSeq(s, Len(s) - n + 1, Len(s))

SeqMax(s) == CHOOSE x \in {s[i] : i \in DOMAIN s} : \A i \in DOMAIN s : s[i] <= x
SeqMin(s) == CHOOSE x \in {s[i] : i \in DOMAIN s} : \A i \in DOMAIN s : s[i] >= x

Pop(f, k) == [x \in DOMAIN f \ {k} |-> f[x]]
Put(f, k, v) == [x \in DOMAIN f \cup {k} |-> IF x = k THEN v ELSE f[x]]
EmptyMap == [x \in {} |-> 0]

\* PositionManager.__init__
NewPositionManager ==
    [position_entry_times |-> EmptyMap,
     position_meta        |-> EmptyMap,
     volume_history       |-> <<>>,
     spread_history       |-> <<>>]

\* the samples the averages are taken over: the last 50 once 50 exist, else all
Averaged(h) == IF Len(h) >= AverageWindow THEN LastN(h, AverageWindow) ELSE h

\* the volume check without the minimum number of samples
check_volume_drop_no_minimum(h) ==
    IF Len(h) < RecentSamples THEN FALSE
    ELSE LET recent == LastN(h, RecentSamples)
             avg    == Averaged(h)
         IN  /\ Sum(avg) > 0
             /\ Sum(recent) * Len(avg) * 100 < Sum(avg) * Len(recent) * VolumeDropPct

\* mean(h[-5:]) < mean(h[-50:]) * volume_drop_threshold, from 20 samples on
check_volume_drop(h) ==
    IF Len(h) < MinSamples THEN FALSE
    ELSE LET recent == LastN(h, RecentSamples)
             avg    == Averaged(h)
         IN  /\ Sum(avg) > 0
             /\ Sum(recent) * Len(avg) * 100 < Sum(avg) * Len(recent) * VolumeDropPct

\* h[-1] > mean(h[-50:]) * spread_widen_threshold, from 20 samples on
check_spread_widening(h) ==
    IF Len(h) < MinSamples THEN FALSE
    ELSE LET current == h[Len(h)]
             avg     == Averaged(h)
         IN  /\ Sum(avg) > 0
             /\ current * Len(avg) * 100 > Sum(avg) * SpreadWidenPct

\* the bids of the collector's last five ticks span less than price_stall_pips
check_price_stall(ticks) ==
    LET recent_ticks == LastN(ticks, StallTicks)
    IN  IF Len(recent_ticks) < StallTicks THEN FALSE
        ELSE SeqMax(recent_ticks) - SeqMin(recent_ticks) < PriceStallPips

\* detect_exhaustion: appends the current volume and spread to the histories,
\* runs the three checks and returns whether any of them fired.
detect_exhaustion(p, current_volume, current_spread, ticks) ==
    LET vh == LastN(Append(p.volume_history, current_volume), HistoryKept)
        sh == LastN(Append(p.spread_history, current_spread), HistoryKept)
        volume_exhausted == check_volume_drop(vh)
        spread_exhausted == check_spread_widening(sh)
        price_stalled    == check_price_stall(ticks)
    IN  [pm |-> [p EXCEPT !.volume_history = vh, !.spread_history = sh],
         volume_exhausted |-> volume_exhausted,
         spread_exhausted |-> spread_exhausted,
         price_stalled    |-> price_stalled,
         result |-> (volume_exhausted \/ spread_exhausted \/ price_stalled)]

\* check_time_limit: datetime.now() - entry_time >= max_hold_minutes
check_time_limit(position, t) ==
    t - position.entry_time >= MaxHoldMinutes * 60

\* (variant: the listing never shows a position)
get_open_positions_lists_none(p, v, f) ==
    {}

\* get_open_positions: the venue's position of this bot as a Position, priced
\* at the bid (LONG) or the ask (SHORT) of the current tick f.
get_open_positions(p, v, f) ==
    IF v = NoPos THEN {}
    ELSE LET current_price == IF v.direction = "LONG" THEN f.bid ELSE f.bid + f.spread
             pips == IF v.direction = "LONG" THEN current_price - v.price_open
                     ELSE v.price_open - current_price
         IN  {[ticket        |-> v.ticket,
               direction     |-> v.direction,
               volume        |-> v.volume,
               entry_price   |-> v.price_open,
               current_price |-> current_price,
               stop_loss     |-> v.sl,
               profit        |-> (pips * v.volume * PipDollarValue) \div 10,
               pips          |-> pips,
               entry_time    |-> IF v.ticket \in DOMAIN p.position_entry_times
                                 THEN p.position_entry_times[v.ticket] ELSE v.time,
               zone_type     |-> IF v.ticket \in DOMAIN p.position_meta
                                 THEN p.position_meta[v.ticket].zone_type ELSE "",
               score         |-> IF v.ticket \in DOMAIN p.position_meta
                                 THEN p.position_meta[v.ticket].score ELSE 0]}

\* _trail_stop: the stop the venue is asked to set, 0 for none
trail_stop(position) ==
    IF position.direction = "LONG"
      THEN IF position.stop_loss < position.entry_price + TrailLockPips
             THEN position.entry_price + TrailLockPips ELSE 0
      ELSE IF position.stop_loss > position.entry_price - TrailLockPips
             THEN position.entry_price - TrailLockPips ELSE 0

\* (variant: the stop is trailed at any profit)
monitor_position_trails_early(p, position, f, ticks, t, v, modify_ok) ==
    LET ex == detect_exhaustion(p, f.vol, f.spread, ticks)
        listed == \E q \in get_open_positions(ex.pm, v, f) : q.ticket = position.ticket
        reason == IF ex.result THEN "EXHAUSTION"
                  ELSE IF check_time_limit(position, t) THEN "TIME_LIMIT"
                  ELSE IF ~listed THEN "STOP_LOSS"
                  ELSE "NONE"
        new_sl == IF reason = "NONE" THEN trail_stop(position) ELSE 0
    IN  [pm |-> ex.pm, reason |-> reason, ex |-> ex,
         venue |-> IF new_sl # 0 /\ modify_ok THEN [v EXCEPT !.sl = new_sl] ELSE v]

\* monitor_position(position): v is the venue's book when the position is
\* looked up again (line 358), modify_ok whether the venue accepts a changed stop.
monitor_position(p, position, f, ticks, t, v, modify_ok) ==
    LET ex == detect_exhaustion(p, f.vol, f.spread, ticks)
        listed == \E q \in get_open_positions(ex.pm, v, f) : q.ticket = position.ticket
        reason == IF ex.result THEN "EXHAUSTION"
                  ELSE IF check_time_limit(position, t) THEN "TIME_LIMIT"
                  ELSE IF ~listed THEN "STOP_LOSS"
                  ELSE "NONE"
        new_sl == IF reason = "NONE" /\ position.pips >= TrailTriggerPips
                  THEN trail_stop(position) ELSE 0
    IN  [pm |-> ex.pm, reason |-> reason, ex |-> ex,
         venue |-> IF new_sl # 0 /\ modify_ok THEN [v EXCEPT !.sl = new_sl] ELSE v]

\* close_position that drops the tracking before it knows the venue's answer
close_position_forgets(p, position, v, venue_ok) ==
    LET q == [p EXCEPT !.position_entry_times = Pop(@, position.ticket),
                       !.position_meta = Pop(@, position.ticket)]
    IN  IF v # NoPos /\ v.ticket = position.ticket /\ venue_ok
          THEN [ok |-> TRUE, venue |-> NoPos, pm |-> q]
          ELSE [ok |-> FALSE, venue |-> v, pm |-> q]

\* close_position: the venue closes the position when it still holds it and
\* accepts the order; only then is the tracking of the ticket dropped.
close_position(p, position, v, venue_ok) ==
    IF v # NoPos /\ v.ticket = position.ticket /\ venue_ok
      THEN [ok |-> TRUE, venue |-> NoPos,
            pm |-> [p EXCEPT !.position_entry_times = Pop(@, position.ticket),
                             !.position_meta = Pop(@, position.ticket)]]
      ELSE [ok |-> FALSE, venue |-> v, pm |-> p]

\* DataCollector.collect appends the tick; only the newest five are ever read
collect(ticks, f) ==
    LastN(Append(ticks, f.bid), StallTicks)

\* the venue stops a position out when the bar trades through its stop
StopCrossed(v, f) ==
    /\ v # NoPos
    /\ \/ v.direction = "LONG" /\ f.low <= v.sl
       \/ v.direction = "SHORT" /\ f.high >= v.sl

NotMonitored ==
    [called |-> FALSE, reason |-> "NONE", volume_exhausted |-> FALSE,
     spread_exhausted |-> FALSE, price_stalled |-> FALSE, exhausted |-> FALSE,
     pips |-> 0, crossed |-> FALSE, time_over |-> FALSE, direction |-> "",
     closed |-> FALSE, stop_loss |-> 0, exit_price |-> 0]

Monitored(position, m, crossed, t, closed) ==
    [called |-> TRUE, reason |-> m.reason,
     volume_exhausted |-> m.ex.volume_exhausted,
     spread_exhausted |-> m.ex.spread_exhausted,
     price_stalled |-> m.ex.price_stalled, exhausted |-> m.ex.result,
     pips |-> position.pips, crossed |-> crossed,
     time_over |-> check_time_limit(position, t),
     direction |-> position.direction, closed |-> closed,
     stop_loss |-> position.stop_loss,
     \* what save_trade_close is given as the exit price (main.py:212)
     exit_price |-> IF closed THEN position.current_price ELSE 0]

\* IOFAEBot._monitor_positions without its bookkeeping: v204 is the venue's
\* book when the positions are listed (main.py:204), v358 when monitor_position
\* looks the position up again.  Returns the objects afterwards, whether a
\* position was closed, and the Position that was monitored.
monitor_positions(p, v204, v358, f, ticks, t, venue_ok, modify_ok) ==
    LET positions == get_open_positions(p, v204, f)
    IN  IF positions = {}
          THEN [pm |-> p, venue |-> v358, monitored |-> FALSE, closed |-> FALSE,
                position |-> NoPos, m |-> NoPos]
          ELSE LET position == CHOOSE q \in positions : TRUE
                   m == monitor_position(p, position, f, ticks, t, v358, modify_ok)
                   c == close_position(m.pm, position, m.venue, venue_ok)
               IN  IF m.reason # "NONE"
                     THEN [pm |-> c.pm, venue |-> c.venue, monitored |-> TRUE,
                           closed |-> c.ok, position |-> position, m |-> m]
                     ELSE [pm |-> m.pm, venue |-> m.venue, monitored |-> TRUE,
                           closed |-> FALSE, position |-> position, m |-> m]

\* The market regime changes at most MaxShifts times in a run.
FeedAllowed(f) ==
    f = feed_last \/ shifts < MaxShifts

FeedStep(f) ==
    /\ feed_last' = f
    /\ shifts' = IF f = feed_last THEN shifts ELSE shifts + 1

-----------------------------------------------------------------------------
(* IOFAEBot (src/main.py): one iteration of the run loop.                   *)

StopLossPips    == 10        \* stop_loss_pips
EntryOffsetPips == 7         \* entry_offset_pips

ScanRangePips   == 20        \* scan_range_pips
DaySeconds      == 86400     \* the length of a calendar day

MaxPolls   == 4              \* bound: iterations of the run loop per run
StartOfRun == 82800          \* bound: the time of day at which the run starts

\* balances at which round(lot, 2) meets an exact half and the binary
\* fraction lies below it (balances under 10000 tenths, stop of 10 pips)
LotTiesRoundedDown == {1500, 4500, 7500}

\* calculate_lot_size: balance x risk_per_trade / (stop pips x pip value),
\* rounded to hundredths of a lot and kept within 0.01 and 100 lots
calculate_lot_size(balance, stop_loss_pips) ==
    LET num == balance * RiskPerTradePct
        den == stop_loss_pips * PipDollarValue * 10
        q   == num \div den
        rem == num % den
        lot == IF 2 * rem > den THEN q + 1
               ELSE IF 2 * rem < den THEN q
               ELSE IF balance \in LotTiesRoundedDown THEN q ELSE q + 1
    IN  Max(1, IF lot < 10000 THEN lot ELSE 10000)

\* ScoreCalculator._calculate_trigger_price
calculate_trigger_price(zone_price, direction) ==
    IF direction = "LONG" THEN zone_price - EntryOffsetPips
    ELSE zone_price + EntryOffsetPips

\* ScoreCalculator._calculate_stop_loss
calculate_stop_loss(trigger_price, direction) ==
    IF direction = "LONG" THEN trigger_price - StopLossPips
    ELSE trigger_price + StopLossPips

\* (variant: a level on the bid counts as above it)
determine_direction_at_or_above(price_level, f) ==
    IF price_level >= f.bid THEN "LONG" ELSE "SHORT"

\* ScoreCalculator._determine_direction: the position bias decides
determine_direction(price_level, f) ==
    IF price_level > f.bid THEN "LONG" ELSE "SHORT"

\* The price levels that score as execution zones in the market of Spec, and
\* the one get_best_zone returns: the nearer to the bid.
ZoneLevels == {10481, 10507}
BestZone(f) ==
    CHOOSE z \in ZoneLevels : \A y \in ZoneLevels : Abs(z - f.bid) <= Abs(y - f.bid)

NoSignal == [direction |-> "NONE"]

\* scan_and_generate: the TradeSignal of the best zone when found says that the
\* session, score and correlation filters let one through and the zone lies
\* within scan_range_pips of the bid.
scan_and_generate(f, found) ==
    LET zone_price == BestZone(f)
        direction  == determine_direction(zone_price, f)
        trigger    == calculate_trigger_price(zone_price, direction)
    IN  IF ~found \/ Abs(zone_price - f.bid) > ScanRangePips THEN NoSignal
        ELSE [direction   |-> direction,
              entry_price |-> trigger,
              stop_loss   |-> calculate_stop_loss(trigger, direction),
              zone_type   |-> "MIXED", score |-> 95, confidence |-> 100]

\* execute_signal: a market order at the ask (LONG) or the bid (SHORT) with the
\* signal's stop; the ticket is tracked only when the venue has filled it.
execute_signal(p, signal, lot_size, f, t, ticket, v, venue_ok) ==
    IF ~venue_ok
      THEN [ticket |-> 0, pm |-> p, venue |-> v]
      ELSE [ticket |-> ticket,
            pm |-> [p EXCEPT
                      !.position_entry_times = Put(@, ticket, t),
                      !.position_meta = Put(@, ticket,
                          [zone_type |-> signal.zone_type, score |-> signal.score,
                           confidence |-> signal.confidence])],
            venue |-> [ticket |-> ticket, direction |-> signal.direction,
                       volume |-> lot_size,
                       price_open |-> IF signal.direction = "LONG"
                                        THEN f.bid + f.spread ELSE f.bid,
                       sl |-> signal.stop_loss, time |-> t]]

\* DOMLogger: the trade rows
\* DOMLogger: the rows of trade_history, in the order they were added; the
\* venue numbers the orders of this account 1, 2, ..., so row i is ticket i.
\* trade_opens and trade_closes count the calls of the two writers.
NewStore == [trade_opens |-> 0, trade_closes |-> 0, rows |-> <<>>]

save_trade_open(d, signal, t) ==
    [d EXCEPT !.trade_opens = @ + 1,
              !.rows = Append(@, [entry_time |-> t, score |-> signal.score,
                                  zone_type |-> signal.zone_type,
                                  status |-> "OPEN", profit |-> 0])]

save_trade_close(d, ticket, profit) ==
    [d EXCEPT !.trade_closes = @ + 1,
              !.rows = IF ticket \in DOMAIN @
                         THEN [@ EXCEPT ![ticket].status = "CLOSED",
                                        ![ticket].profit = profit]
                         ELSE @]

\* _daily_reset without line 315: the summary is sent, the counters stay
daily_reset_summary_only(r, balance, t) ==
    get_daily_stats(r, t).risk

\* _daily_reset (a notifier is configured): the summary calls get_daily_stats,
\* then the counters are reset on the account's balance
daily_reset(r, balance, t) ==
    reset_daily(get_daily_stats(r, t).risk, balance)

\* date.today() when datetime.now() is t
Today(t) == (StartOfRun + t) \div DaySeconds

\* get_today_trades / get_today_stats: the rows entered since today's midnight;
\* total_trades counts them all, total_profit sums the closed ones
SumProfit(rows, I) ==
    Sum([i \in 1..Len(rows) |->
            IF i \in I /\ rows[i].status = "CLOSED" THEN rows[i].profit ELSE 0])

get_today_stats(d, t) ==
    LET I == {i \in DOMAIN d.rows : Today(d.rows[i].entry_time) >= Today(t)}
    IN  [total_trades |-> Cardinality(I), total_profit |-> SumProfit(d.rows, I)]

\* get_last_trade_time: the entry time of the row entered last
get_last_trade_time(d) ==
    IF d.rows = <<>> THEN NoTime ELSE d.rows[Len(d.rows)].entry_time

\* RiskController.__init__ and initialize(balance) over a store d that holds
\* rows, at time t
initialize_from_store(balance, d, t) ==
    LET stats == get_today_stats(d, t)
        last  == get_last_trade_time(d)
    IN  [initialize(balance) EXCEPT
           !.today_trades = stats.total_trades,
           !.today_loss = Abs(IF stats.total_profit < 0 THEN stats.total_profit ELSE 0),
           !.last_trade_time = IF last # NoTime /\ Today(last) = Today(t)
                                 THEN last ELSE NoTime]

\* what the venue books when it stops a position out at its stop price
StopProfit(v) ==
    IF v = NoPos THEN 0
    ELSE IF v.direction = "LONG" THEN (v.sl - v.price_open) * v.volume
    ELSE (v.price_open - v.sl) * v.volume

NotRun ==
    [phase |-> "init", reset |-> FALSE, signal |-> "NONE",
     monitored |-> FALSE, ticket |-> 0, entry_time |-> 0,
     close_requested |-> FALSE, close_done |-> FALSE,
     open_requested |-> FALSE, open_done |-> FALSE]

-----------------------------------------------------------------------------
(* SpecMon: one position, opened on a quiet tick with empty histories, is   *)
(* monitored tick after tick until it is closed or stopped out.             *)

OpenedPosition(direction) ==
    [ticket |-> 1, direction |-> direction, volume |-> 1, price_open |-> 10500,
     sl |-> IF direction = "LONG" THEN 10490 ELSE 10510, time |-> 0]

\* One polling tick: the clock moves by dt, the collector takes the tick f, the
\* venue stops the position out if the bar has traded through its stop (before
\* the positions are listed, or between the listing and the second look-up),
\* and _monitor_positions runs.
MonitorTick(f, dt, stop_seen, venue_ok, modify_ok) ==
    /\ venue # NoPos
    /\ Len(pm.volume_history) < MaxSamples
    /\ now + dt <= MaxTime
    /\ FeedAllowed(f)
    /\ LET crossed == StopCrossed(venue, f)
           v204 == IF crossed /\ stop_seen = "before" THEN NoPos ELSE venue
           v358 == IF crossed THEN NoPos ELSE venue
           ticks == collect(tick_buffer, f)
           r == monitor_positions(pm, v204, v358, f, ticks, now + dt, venue_ok, modify_ok)
       IN  /\ now' = now + dt
           /\ tick_buffer' = ticks
           /\ pm' = r.pm
           /\ venue' = r.venue
           /\ mon' = IF r.monitored
                       THEN Monitored(r.position, r.m, crossed, now + dt, r.closed)
                       ELSE [NotMonitored EXCEPT !.crossed = crossed]
    /\ FeedStep(f)
    /\ UNCHANGED <<risk, riskObs, botVars>>

InitMon ==
    /\ risk \in {initialize(b) : b \in InitBalances}
    /\ now = 0
    /\ ret = NoReturn("initialize")
    /\ daily_limit_hit = FALSE
    /\ drawdown_hit = FALSE
    /\ \E d \in {"LONG", "SHORT"} :
          /\ venue = OpenedPosition(d)
          /\ pm = [NewPositionManager EXCEPT
                     !.position_entry_times = Put(EmptyMap, 1, 0),
                     !.position_meta = Put(EmptyMap, 1,
                        [zone_type |-> "MIXED", score |-> 80, confidence |-> 80])]
    /\ tick_buffer = <<Quiet.bid>>
    /\ mon = NotMonitored
    /\ feed_last = Quiet
    /\ shifts = 0
    /\ account = risk.starting_balance
    /\ today = Today(0)
    /\ current_date = Today(0)
    /\ db = NewStore
    /\ iter = NotRun
    /\ opened_today = 0
    /\ polls = 0
    /\ market = NoMarket
    /\ outcome = NoOutcome

NextMon ==
    \E f \in Feeds, dt \in {0, ShortWait}, stop_seen \in {"before", "during"},
       venue_ok \in BOOLEAN, modify_ok \in BOOLEAN :
        MonitorTick(f, dt, stop_seen, venue_ok, modify_ok)

SpecMon == InitMon /\ [][NextMon]_vars

-----------------------------------------------------------------------------
(* Claims about the exit evaluation, checked under SpecMon *)

\* C1: for a LONG position whose bar low is at or below its stop-loss on a
\* tick (SHORT: bar high at or above it), the exit evaluation of that tick
\* returns STOP_LOSS, also when an exhaustion condition or the time limit holds
\* on the same tick.
C1_StopLossTakesPrecedence ==
    (mon.called /\ mon.crossed) => mon.reason = "STOP_LOSS"

\* C8: the monitor never returns EXHAUSTION for a position whose current profit
\* is below the minimum profit threshold of 10 pips.
C8_NoExhaustionBelowMinProfit ==
    (mon.called /\ mon.reason = "EXHAUSTION") => mon.pips >= 10

C29_StopLossExitsAtStopPrice ==
    (mon.called /\ mon.reason = "STOP_LOSS")
    => /\ mon.closed
       /\ mon.exit_price = mon.stop_loss

\* C30: the exit rules are evaluated in the order stop-loss, time limit,
\* exhaustion: on a tick whose bar has not crossed the stop, with the holding
\* time over the maximum and an exhaustion condition holding, the reason is
\* TIME_LIMIT, and EXHAUSTION is returned only within the holding time.
C30_TimeLimitBeforeExhaustion ==
    (mon.called /\ ~mon.crossed)
    => /\ (mon.time_over /\ mon.exhausted) => mon.reason = "TIME_LIMIT"
       /\ mon.reason = "EXHAUSTION" => ~mon.time_over

-----------------------------------------------------------------------------
(* SpecTrail: the position of SpecMon monitored on ticks that take it 16    *)
(* pips into profit.                                                        *)

NextTrail ==
    \E f \in TrailFeeds, dt \in {0, ShortWait}, stop_seen \in {"before", "during"},
       venue_ok \in BOOLEAN, modify_ok \in BOOLEAN :
        MonitorTick(f, dt, stop_seen, venue_ok, modify_ok)

SpecTrail == InitMon /\ [][NextTrail]_vars

\* C31: after an exit evaluation the stop of the position differs from the
\* stop it was listed with only if no exit reason fired, the profit was at
\* least 15 pips and the listed stop was worse than entry + 5 pips (LONG) or
\* entry - 5 pips (SHORT), and then it is that value; in every other case,
\* a refused modification included, the stop is the listed one.  The position
\* leaves the venue's book only stopped out or closed for an exit reason.
C31_TrailingOnlyTightens ==
    mon.called =>
        LET entry == OpenedPosition(mon.direction).price_open
            breakeven == IF mon.direction = "LONG" THEN entry + 5 ELSE entry - 5
            worse == IF mon.direction = "LONG" THEN mon.stop_loss < breakeven
                     ELSE mon.stop_loss > breakeven
        IN  /\ venue # NoPos =>
                  /\ venue.sl \in {mon.stop_loss, breakeven}
                  /\ venue.sl # mon.stop_loss =>
                        /\ mon.reason = "NONE"
                        /\ mon.pips >= 15
                        /\ worse
                  /\ mon.direction = "LONG" => venue.sl >= mon.stop_loss
                  /\ mon.direction = "SHORT" => venue.sl <= mon.stop_loss
            /\ venue = NoPos => (mon.crossed \/ (mon.closed /\ mon.reason # "NONE"))
            /\ mon.reason = "NONE" => ~mon.closed

\* C31 witness: the SHORT position, 16 pips in profit with no exit reason,
\* has had its stop moved from 1.0510 to 1.0495.
C31_Witness ==
    /\ mon.called
    /\ mon.direction = "SHORT"
    /\ mon.reason = "NONE"
    /\ mon.pips >= 15
    /\ mon.stop_loss = 10510
    /\ venue # NoPos
    /\ venue.sl = 10495

-----------------------------------------------------------------------------
(* SpecRisk: the methods of one RiskController called in every order *)

\* What the history variables record once the object has its new value.
Observe(op) ==
    /\ daily_limit_hit' = IF op = "reset_daily" THEN ~check_daily_loss(risk')
                          ELSE daily_limit_hit \/ ~check_daily_loss(risk')
    /\ drawdown_hit' = (drawdown_hit \/ ~check_total_drawdown(risk'))

UpdateBalance(b) ==
    /\ risk' = update_balance(risk, b)
    /\ ret' = [NoReturn("update_balance") EXCEPT !.val = b]
    /\ Observe("update_balance")
    /\ UNCHANGED <<now, pmVars, botVars>>

CanTrade ==
    /\ risk' = can_trade(risk, now).risk
    /\ ret' = Returned("can_trade", can_trade(risk, now))
    /\ Observe("can_trade")
    /\ UNCHANGED <<now, pmVars, botVars>>

RecordTrade(p) ==
    /\ risk.today_trades < MaxRecorded
    /\ risk' = record_trade(risk, p, now)
    /\ ret' = NoReturn("record_trade")
    /\ Observe("record_trade")
    /\ UNCHANGED <<now, pmVars, botVars>>

GetDailyStats ==
    /\ risk' = get_daily_stats(risk, now).risk
    /\ ret' = Returned("get_daily_stats", get_daily_stats(risk, now))
    /\ Observe("get_daily_stats")
    /\ UNCHANGED <<now, pmVars, botVars>>

ResetDaily(b) ==
    /\ risk' = reset_daily(risk, b)
    /\ ret' = [NoReturn("reset_daily") EXCEPT !.val = b]
    /\ Observe("reset_daily")
    /\ UNCHANGED <<now, pmVars, botVars>>

StopBot ==
    /\ risk' = stop_bot(risk)
    /\ ret' = NoReturn("stop_bot")
    /\ Observe("stop_bot")
    /\ UNCHANGED <<now, pmVars, botVars>>

\* The wall clock moves on between two calls.
Advance(dt) ==
    /\ now + dt <= MaxTime
    /\ now' = now + dt
    /\ UNCHANGED <<risk, pmVars, botVars>>
    /\ ret' = NoReturn("advance")
    /\ Observe("advance")

InitRisk ==
    /\ risk \in {initialize(b) : b \in InitBalances}
    /\ now = 0
    /\ ret = NoReturn("initialize")
    /\ daily_limit_hit = FALSE
    /\ drawdown_hit = FALSE
    /\ pm = NewPositionManager
    /\ tick_buffer = <<>>
    /\ venue = NoPos
    /\ mon = NotMonitored
    /\ feed_last = Quiet
    /\ shifts = 0
    /\ account = risk.starting_balance
    /\ today = Today(0)
    /\ current_date = Today(0)
    /\ db = NewStore
    /\ iter = NotRun
    /\ opened_today = 0
    /\ polls = 0
    /\ market = NoMarket
    /\ outcome = NoOutcome

NextRisk ==
    \/ \E b \in Balances : UpdateBalance(b)
    \/ CanTrade
    \/ \E p \in Profits : RecordTrade(p)
    \/ GetDailyStats
    \/ \E b \in Balances : ResetDaily(b)
    \/ StopBot
    \/ \E dt \in Waits : Advance(dt)

SpecRisk == InitRisk /\ [][NextRisk]_vars

-----------------------------------------------------------------------------
(* Claims about RiskController, checked under SpecRisk *)

\* C2: once the daily loss counter has reached daily starting balance x
\* max_daily_loss, every can_trade() call made before the next reset_daily
\* returns false, whatever update_balance and record_trade calls come between.
C2_DailyLimitBlocksUntilReset ==
    (ret.op = "can_trade" /\ daily_limit_hit) => ~ret.ok

\* C3: once the drawdown of the implied balance from the lifetime starting
\* balance has reached max_total_drawdown in some state, can_trade() returns
\* false in every later state (the code has no operator reset).
C3_DrawdownBlocksForever ==
    (ret.op = "can_trade" /\ drawdown_hit) => ~ret.ok

\* C4: between two reset_daily calls the daily loss counter never decreases.
C4_DailyLossNeverDecreases ==
    [][ret'.op # "reset_daily" => risk'.today_loss >= risk.today_loss]_vars

\* C7: can_trade() returns (true, OK) exactly when the engine is not latched
\* and the daily-loss, drawdown, trade-count and trade-interval checks all
\* pass; otherwise the reason is that of the first failing check in this order
\* and no later check is evaluated (the drawdown check, the only one with an
\* effect, latches the engine exactly when it is the first to fail).
C7_CanTradeFirstFailure ==
    [][ret'.op = "can_trade" =>
        LET latched  == risk.bot_stopped
            lossOk   == risk.today_loss * 100 < risk.today_starting * 5
            ddOk     == (risk.starting_balance - (risk.today_starting - risk.today_loss)) * 100
                            < risk.starting_balance * 10
            countOk  == risk.today_trades < 3
            intervOk == \/ risk.last_trade_time = NoTime
                        \/ now - risk.last_trade_time >= 10800
            first    == IF latched THEN "STOPPED"
                        ELSE IF ~lossOk THEN "DAILY_LOSS"
                        ELSE IF ~ddOk THEN "MAX_DRAWDOWN"
                        ELSE IF ~countOk THEN "MAX_TRADES"
                        ELSE IF ~intervOk THEN "INTERVAL"
                        ELSE "OK"
        IN  /\ ret'.ok <=> (~latched /\ lossOk /\ ddOk /\ countOk /\ intervOk)
            /\ ret'.kind = first
            /\ risk' = [risk EXCEPT !.bot_stopped = (latched \/ first = "MAX_DRAWDOWN")]
    ]_vars

\* C7 witness: a can_trade() call in which the daily-loss, the drawdown and the
\* trade-count check all fail and the daily-loss reason is the one returned.
C7_Witness ==
    /\ ret.op = "can_trade"
    /\ ret.kind = "DAILY_LOSS"
    /\ ~risk.bot_stopped
    /\ ~check_total_drawdown(risk)
    /\ ~check_trade_count(risk)

\* C32: reset_daily(new_balance) sets the daily starting balance to
\* new_balance and the daily loss and trade count to 0; the latch, the
\* lifetime starting balance, the high-water balance (and the last-trade
\* time) are as before the call, so a latch that was set is still set.
C32_ResetDailyKeepsLatch ==
    [][ret'.op = "reset_daily" =>
        /\ risk'.today_starting = ret'.val
        /\ risk'.today_loss = 0
        /\ risk'.today_trades = 0
        /\ risk'.bot_stopped = risk.bot_stopped
        /\ risk'.starting_balance = risk.starting_balance
        /\ risk'.highest_balance = risk.highest_balance
        /\ risk'.last_trade_time = risk.last_trade_time
    ]_vars

\* C32 witness: a reset_daily to a balance below the high-water balance, with
\* the latch set and trades recorded before it.
C32_Witness ==
    /\ ret.op = "reset_daily"
    /\ risk.bot_stopped
    /\ risk.today_starting = 940
    /\ risk.highest_balance = 1050
    /\ risk.last_trade_time # NoTime

\* C33: no call lowers the high-water balance, and after update_balance(b) it
\* is at least b; so it is at least every balance passed so far.
C33_HighWaterNeverFalls ==
    [][/\ risk'.highest_balance >= risk.highest_balance
       /\ ret'.op = "update_balance" => risk'.highest_balance >= ret'.val
    ]_vars

\* C33 witness: update_balance with a balance below the high-water balance
\* reached earlier.
C33_Witness ==
    /\ ret.op = "update_balance"
    /\ ret.val = 900
    /\ risk.highest_balance = 1050
    /\ risk.today_loss > 0

\* C40: can_trade() and get_daily_stats() leave the daily starting balance,
\* the daily loss, the trade count, the last-trade time, the lifetime starting
\* balance and the high-water balance as they were; the latch changes only by
\* being set, and only from a state in which the daily-loss check passes and
\* the drawdown check fails.
C40_GuardsOnlyLatch ==
    [][ret'.op \in {"can_trade", "get_daily_stats"} =>
        /\ risk' = [risk EXCEPT !.bot_stopped = risk'.bot_stopped]
        /\ risk.bot_stopped => risk'.bot_stopped
        /\ risk'.bot_stopped # risk.bot_stopped =>
              /\ risk.today_loss * 100 < risk.today_starting * 5
              /\ (risk.starting_balance - (risk.today_starting - risk.today_loss)) * 100
                    >= risk.starting_balance * 10
    ]_vars

\* C40 witness: get_daily_stats() has set the latch, with trades and a daily
\* loss on the counters.
C40_Witness ==
    /\ ret.op = "get_daily_stats"
    /\ ret.kind = "MAX_DRAWDOWN"
    /\ risk.bot_stopped
    /\ risk.today_trades > 0
    /\ risk.today_loss > 0

-----------------------------------------------------------------------------------------------------------------------------------------------------
(* Spec: the run loop of IOFAEBot, one iteration per step.  The market of   *)
(* this specification has a steady volume and spread and moves between two  *)
(* prices; the run starts an hour before midnight.                          *)

Ticks == {Quiet, Down}
Steps == {0, ShortWait, MinTradeInterval}

\* One iteration of `while self.running` (main.py:145-198).
\*   f          the market at this tick          dt        seconds since the last
\*   data_ok    collect() returns data           found     the scan finds a signal
\*   stop_seen  when the venue stops a position out whose stop the bar has
\*              traded through: before the iteration, or during it, after
\*              _monitor_positions has listed the position
\*   close_ok, open_ok   the venue accepts the order
\*   other      what the balance of the account has moved by since the last
\*              iteration for reasons other than the engine's position
\* Every call is bound once, in the order of the loop.
Run(f, dt, data_ok, stop_seen, close_ok, found, open_ok, other) ==
    /\ iter.phase # "shutdown"
    /\ polls < MaxPolls
    /\ now + dt <= MaxTime
    /\ LET t       == now + dt
           day     == Today(t)
           crossed == StopCrossed(venue, f)
           before  == crossed /\ stop_seen = "before"
           acct0   == account + other + (IF before THEN StopProfit(venue) ELSE 0)
           acct1   == account + other + (IF crossed THEN StopProfit(venue) ELSE 0)
           v204    == IF before THEN NoPos ELSE venue
           v358    == IF crossed THEN NoPos ELSE venue
           reset   == day # current_date
       IN  \* 148-149, 152, 158-159
           \E r1 \in {IF reset THEN daily_reset(risk, acct0, t) ELSE risk} :
           \E skipped \in {is_stopped(r1) \/ ~data_ok},
              ticks \in {collect(tick_buffer, f)} :
           \* 168: _monitor_positions; the prices of this market never bring a
           \* position 15 pips into profit, so no stop is moved
           \E mp \in {monitor_positions(pm, v204, v358, f, ticks, t, close_ok, TRUE)} :
           \* 164-165, then the bookkeeping of a close (212-223)
           \E r3 \in {IF mp.closed
                        THEN record_trade(update_balance(r1, acct0), mp.position.profit, t)
                        ELSE update_balance(r1, acct0)},
              db1 \in {IF mp.closed
                         THEN save_trade_close(db, mp.position.ticket, mp.position.profit)
                         ELSE db},
              acct2 \in {IF mp.closed THEN acct1 + mp.position.profit ELSE acct1} :
           \* 171-184
           \E ct \in {can_trade(r3, t)},
              positions \in {get_open_positions(mp.pm, mp.venue, f)} :
           \E signal \in {IF ct.ok /\ positions = {}
                            THEN scan_and_generate(f, found) ELSE NoSignal} :
           \* 187: _execute_signal (242-265); the venue numbers its orders
           \E es \in {IF signal = NoSignal
                        THEN [ticket |-> 0, pm |-> mp.pm, venue |-> mp.venue]
                        ELSE execute_signal(mp.pm, signal,
                                            calculate_lot_size(acct2, StopLossPips),
                                            f, t, db.trade_opens + 1, mp.venue, open_ok)} :
           /\ now' = t
           /\ today' = day
           /\ current_date' = day
           /\ polls' = polls + 1
           /\ tick_buffer' = IF skipped THEN tick_buffer ELSE ticks
           /\ risk' = IF skipped THEN r1 ELSE ct.risk
           /\ pm' = IF skipped THEN pm ELSE es.pm
           /\ venue' = IF skipped THEN v358 ELSE es.venue
           /\ account' = IF skipped THEN acct1 ELSE acct2
           /\ db' = IF skipped THEN db
                    ELSE IF es.ticket # 0 THEN save_trade_open(db1, signal, t) ELSE db1
           /\ opened_today' = (IF day # today THEN 0 ELSE opened_today)
                                 + (IF ~skipped /\ es.ticket # 0 THEN 1 ELSE 0)
           /\ mon' = IF ~skipped /\ mp.monitored
                       THEN Monitored(mp.position, mp.m, crossed, t, mp.closed)
                       ELSE [NotMonitored EXCEPT !.crossed = crossed]
           /\ ret' = IF skipped THEN NoReturn("run") ELSE Returned("can_trade", ct)
           /\ iter' = IF skipped
                        THEN [NotRun EXCEPT
                                !.phase = IF is_stopped(r1) THEN "stopped" ELSE "no_data",
                                !.reset = reset]
                        ELSE [phase |-> IF ~ct.ok THEN "refused"
                                        ELSE IF positions # {} THEN "holding"
                                        ELSE IF signal = NoSignal THEN "no_signal"
                                        ELSE IF es.ticket # 0 THEN "opened"
                                        ELSE "open_failed",
                              reset |-> reset,
                              signal |-> signal.direction,
                              monitored |-> mp.monitored,
                              ticket |-> IF mp.monitored THEN mp.position.ticket ELSE 0,
                              entry_time |-> IF mp.monitored
                                               THEN mp.position.entry_time ELSE 0,
                              close_requested |-> mp.monitored /\ mp.m.reason # "NONE",
                              close_done |-> mp.closed,
                              open_requested |-> signal # NoSignal,
                              open_done |-> es.ticket # 0]
    /\ daily_limit_hit' = IF iter'.reset THEN ~check_daily_loss(risk')
                          ELSE daily_limit_hit \/ ~check_daily_loss(risk')
    /\ drawdown_hit' = (drawdown_hit \/ ~check_total_drawdown(risk'))
    /\ UNCHANGED <<feed_last, shifts, sigVars>>

Init ==
    /\ risk \in {initialize(b) : b \in InitBalances}
    /\ now = 0
    /\ ret = NoReturn("initialize")
    /\ daily_limit_hit = FALSE
    /\ drawdown_hit = FALSE
    /\ pm = NewPositionManager
    /\ tick_buffer = <<>>
    /\ venue = NoPos
    /\ mon = NotMonitored
    /\ feed_last = Quiet
    /\ shifts = 0
    /\ account = risk.starting_balance
    /\ today = Today(0)
    /\ current_date = Today(0)
    /\ db = NewStore
    /\ iter = NotRun
    /\ opened_today = 0
    /\ polls = 0
    /\ market = NoMarket
    /\ outcome = NoOutcome

Next ==
    \E f \in Ticks, dt \in Steps, data_ok \in BOOLEAN :
      \E stop_seen \in (IF StopCrossed(venue, f) THEN {"before", "during"} ELSE {"before"}),
         close_ok \in (IF venue = NoPos THEN {TRUE} ELSE BOOLEAN),
         found \in BOOLEAN :
        \E open_ok \in (IF found THEN BOOLEAN ELSE {TRUE}) :
          Run(f, dt, data_ok, stop_seen, close_ok, found, open_ok, 0)

Spec == Init /\ [][Next]_vars

-----------------------------------------------------------------------------
(* SpecRestart: the run loop, stopped by a signal at any iteration and      *)
(* started again as a new process over the same store and the same account. *)

\* stop() ends the loop and shutdown() runs: the block that would close the
\* open positions is commented out, the collector disconnects, and nothing is
\* written to the store.
Shutdown ==
    /\ iter.phase # "shutdown"
    /\ iter' = [NotRun EXCEPT !.phase = "shutdown"]
    /\ ret' = NoReturn("shutdown")
    /\ UNCHANGED <<risk, now, daily_limit_hit, drawdown_hit, pmVars,
                   account, today, current_date, db, opened_today, polls, sigVars>>

\* A new process dt seconds later: IOFAEBot.__init__ and initialize() build a
\* new collector, PositionManager and RiskController; the store and the venue
\* are what the last process left.
Restart(dt) ==
    /\ iter.phase = "shutdown"
    /\ now + dt <= MaxTime
    /\ now' = now + dt
    /\ pm' = NewPositionManager
    /\ tick_buffer' = <<>>
    /\ risk' = initialize_from_store(account, db, now')
    /\ current_date' = Today(now')
    /\ today' = Today(now')
    /\ opened_today' = IF today' # today THEN 0 ELSE opened_today
    /\ iter' = [NotRun EXCEPT !.phase = "restarted"]
    /\ ret' = NoReturn("initialize")
    /\ mon' = NotMonitored
    /\ daily_limit_hit' = ~check_daily_loss(risk')
    /\ drawdown_hit' = ~check_total_drawdown(risk')
    /\ UNCHANGED <<venue, feed_last, shifts, account, db, polls, sigVars>>

NextRestart ==
    \/ Next
    \/ Shutdown
    \/ \E dt \in Steps : Restart(dt)

SpecRestart == Init /\ [][NextRestart]_vars

\* C11: after a shutdown with a position open and a restart, the position the
\* venue still holds is listed for monitoring with the entry time, zone type
\* and entry score it was opened with (the ones its row of the store carries).
C11_RestartKeepsPositionData ==
    (venue # NoPos /\ iter.phase # "shutdown") =>
        \A position \in get_open_positions(pm, venue, Quiet) :
            /\ position.entry_time = db.rows[position.ticket].entry_time
            /\ position.zone_type = db.rows[position.ticket].zone_type
            /\ position.score = db.rows[position.ticket].score

-----------------------------------------------------------------------------
(* Claims about the run loop, checked under Spec *)

\* C5: over any sequence of polling ticks within one trading day, days on
\* which positions end by a broker-side stop-out included, the number of
\* positions the engine opens that day never exceeds max_trades_per_day (3).
C5_OpensWithinDailyCap ==
    opened_today <= 3

\* C6: when the previous trade was recorded less than min_trade_interval
\* seconds ago and the daily-loss, drawdown and trade-count checks pass, the
\* can_trade() of the iteration returns false with the reason that states the
\* remaining wait in minutes, and the iteration opens no position: no order is
\* tracked, stored or held at the venue that was not there before.
C6_IntervalRefusalOpensNothing ==
    [][(/\ ret'.op = "can_trade"
        /\ risk'.last_trade_time # NoTime
        /\ now' - risk'.last_trade_time < 10800
        /\ risk'.today_loss * 100 < risk'.today_starting * 5
        /\ (risk'.starting_balance - (risk'.today_starting - risk'.today_loss)) * 100
              < risk'.starting_balance * 10
        /\ risk'.today_trades < 3)
       => /\ ~ret'.ok
          /\ ret'.kind = "INTERVAL"
          /\ ret'.val = (10800 - (now' - risk'.last_trade_time)) \div 60
          /\ iter'.phase = "refused"
          /\ db'.trade_opens = db.trade_opens
          /\ opened_today' <= opened_today
          /\ DOMAIN pm'.position_entry_times \subseteq DOMAIN pm.position_entry_times
          /\ venue' \in {venue, NoPos}
    ]_vars

\* C6 witness: with no position held, an iteration ShortWait seconds after the
\* last recorded trade, refused with the remaining minutes as the reason.
C6_Witness ==
    /\ ret.op = "can_trade"
    /\ ret.kind = "INTERVAL"
    /\ now - risk.last_trade_time = ShortWait
    /\ ret.val = (MinTradeInterval - ShortWait) \div 60
    /\ check_daily_loss(risk) /\ check_total_drawdown(risk) /\ check_trade_count(risk)
    /\ venue = NoPos

C13_ScanAfterRiskUpdate ==
    [][/\ iter'.phase \in {"no_signal", "opened", "open_failed"} =>
             /\ ret'.op = "can_trade" /\ ret'.ok
             /\ ~is_stopped(risk) /\ ~is_stopped(risk')
             /\ can_trade(risk', now').ok
             /\ ~iter'.close_done
             /\ (~(mon'.crossed /\ iter'.monitored) /\ account' < risk'.today_starting)
                   => risk'.today_loss = risk'.today_starting - account'
             /\ risk'.highest_balance >= account'
       /\ iter'.close_done =>
             /\ risk'.last_trade_time = now'
             /\ risk'.today_trades = (IF iter'.reset THEN 0 ELSE risk.today_trades) + 1
             /\ iter'.phase \in {"refused", "stopped"}
       /\ ((ret'.op = "can_trade" /\ ~ret'.ok) \/ is_stopped(risk) \/ is_stopped(risk')) =>
             /\ iter'.phase \in {"refused", "stopped", "no_data"}
             /\ iter'.signal = "NONE"
             /\ ~iter'.open_requested
             /\ db'.trade_opens = db.trade_opens
    ]_vars

\* C13 witness: a position was opened by an iteration whose checks read the
\* loss of a stop-out that the balance of that tick showed.
C13_Witness ==
    /\ iter.phase = "opened"
    /\ ret.op = "can_trade" /\ ret.ok
    /\ risk.today_loss > 0
    /\ risk.today_loss = risk.today_starting - account

C36_TerminatedPositionsAreRecorded ==
    [][ (venue # NoPos /\ venue'.ticket # venue.ticket) =>
          /\ risk'.today_trades = (IF iter'.reset THEN 0 ELSE risk.today_trades) + 1
          /\ risk'.last_trade_time = now'
      ]_vars

-----------------------------------------------------------------------------
(* SpecShared: the run loop on an account that the engine does not have to  *)
(* itself.  get_open_positions keeps the positions of its own magic number  *)
(* only (position_manager.py:129-130) and get_account_info reports the      *)
(* balance of the whole account (data_collector.py:107-115), so the balance *)
(* can fall while the engine's position stays open.  Iterations are ten     *)
(* minutes apart or immediate; the venue accepts every order.               *)

SharedSteps  == {0, 600, ShortWait}   \* ten minutes is under the hold time
OtherResults == {0, 0 - 100}      \* a loss of a tenth of the first balance

NextShared ==
    \E f \in Ticks, dt \in SharedSteps, data_ok \in BOOLEAN, found \in BOOLEAN :
      \E stop_seen \in (IF StopCrossed(venue, f) THEN {"before", "during"} ELSE {"before"}),
         other \in (IF account >= 1000 THEN OtherResults ELSE {0}) :
          Run(f, dt, data_ok, stop_seen, TRUE, found, TRUE, other)

SpecShared == Init /\ [][NextShared]_vars

\* C37: in every iteration that begins with a position open, still held by
\* the venue, and for which the market has a snapshot, monitor_position is
\* called for the position, also when can_trade refuses and when the
\* drawdown latch is set; a position older than the maximum hold time is
\* then asked to close.
C37_OpenPositionAlwaysMonitored ==
    [][ (venue # NoPos /\ ~mon'.crossed /\ iter'.phase # "no_data") =>
          /\ iter'.monitored
          /\ (now' - venue.time >= MaxHoldMinutes * 60) => iter'.close_requested
      ]_vars

-----------------------------------------------------------------------------
(* SpecConfig: the run loop started on a configuration and an account that  *)
(* are read as they are.  `market.config` is config['trading'] as loaded by *)
(* _load_config (main.py:71-81), `risk` is initialised on the balance the   *)
(* account reports (main.py:114-116).  The venue refuses every order, so no *)
(* position is ever open, and every iteration obtains market data.          *)

StopDistances  == {0 - 10, 0, 10}       \* trading.stop_loss_pips
FirstBalances  == {0, 1000}             \* the balance at initialize()
LaterBalances  == {0, 900, 1000}        \* the balance at a later iteration

NoError == "none"

\* can_trade, with the exception of _check_total_drawdown: the quotient of
\* line 137 is taken once the latch and the daily check have passed, and its
\* divisor is the lifetime starting balance
can_trade_raises(r) ==
    /\ ~r.bot_stopped
    /\ check_daily_loss(r)
    /\ r.starting_balance = 0

\* calculate_lot_size, the exception of line 169: the divisor is
\* stop_loss_pips * pip_dollar_value, and pip_dollar_value is fixed at 10.0
calculate_lot_size_raises(stop_loss_pips) ==
    stop_loss_pips * PipDollarValue = 0

\* calculate_lot_size for any stop distance: a negative quotient is lifted to
\* the minimum lot by max(0.01, ...)
calculate_lot_size_of(balance, stop_loss_pips) ==
    IF stop_loss_pips < 0 \/ balance <= 0 THEN 1
    ELSE calculate_lot_size(balance, stop_loss_pips)

\* _daily_reset when the summary's get_daily_stats may raise: then
\* reset_daily is not reached
daily_reset_raises(r) ==
    can_trade_raises(r)

\* One iteration of `while self.running` (main.py:145-198) on this
\* configuration; an exception leaves the try block at the call that raised
\* it and is logged by the handler of lines 192-197.
\*   balance   what get_account_info reports     dt     seconds since the last
\*   found     the scan finds a signal
RunConfigured(balance, dt, found) ==
    /\ polls < MaxPolls
    /\ now + dt <= MaxTime
    /\ LET t      == now + dt
           day    == Today(t)
           reset  == day # current_date
           raise1 == reset /\ daily_reset_raises(risk)
           r1     == IF reset /\ ~raise1 THEN daily_reset(risk, balance, t) ELSE risk
           latched == ~raise1 /\ is_stopped(r1)
           r2     == IF raise1 \/ latched THEN r1 ELSE update_balance(r1, balance)
           raise2 == ~raise1 /\ ~latched /\ can_trade_raises(r2)
           ct     == IF raise1 \/ latched \/ raise2
                       THEN [ok |-> FALSE, kind |-> "", val |-> 0, risk |-> r2]
                       ELSE can_trade(r2, t)
           signal == IF ct.ok /\ found THEN scan_and_generate(Quiet, TRUE) ELSE NoSignal
           raise3 == signal # NoSignal
                        /\ calculate_lot_size_raises(market.config.stop_loss_pips)
           lot    == IF signal # NoSignal /\ ~raise3
                       THEN calculate_lot_size_of(balance, market.config.stop_loss_pips)
                       ELSE 0
       IN  /\ now' = t
           /\ today' = day
           /\ current_date' = IF reset /\ ~raise1 THEN day ELSE current_date
           /\ polls' = polls + 1
           /\ account' = balance
           /\ risk' = ct.risk
           /\ ret' = IF raise1 \/ latched \/ raise2 THEN NoReturn("run")
                     ELSE Returned("can_trade", ct)
           /\ iter' = [NotRun EXCEPT
                         !.phase = IF raise1 \/ raise2 \/ raise3 THEN "error"
                                   ELSE IF latched THEN "stopped"
                                   ELSE IF ~ct.ok THEN "refused"
                                   ELSE IF signal = NoSignal THEN "no_signal"
                                   ELSE "open_failed",
                         !.reset = reset /\ ~raise1,
                         !.signal = signal.direction,
                         !.open_requested = (signal # NoSignal /\ ~raise3)]
           /\ outcome' = [op    |-> "run",
                          error |-> IF raise1 \/ raise2 \/ raise3
                                      THEN "ZeroDivisionError" ELSE NoError,
                          at    |-> IF raise1 THEN "get_daily_stats"
                                    ELSE IF raise2 THEN "can_trade"
                                    ELSE IF raise3 THEN "calculate_lot_size"
                                    ELSE "",
                          lot   |-> lot]
    /\ daily_limit_hit' = IF iter'.reset THEN ~check_daily_loss(risk')
                          ELSE daily_limit_hit \/ ~check_daily_loss(risk')
    /\ UNCHANGED <<drawdown_hit, pmVars, db, opened_today, market>>

\* IOFAEBot.initialize (main.py:88-134): the components are built on the
\* configuration and the balance as they are; it returns False only when the
\* data collector cannot connect
InitConfig ==
    /\ risk \in {initialize(b) : b \in FirstBalances}
    /\ market \in {[bid |-> 0, config |-> [stop_loss_pips |-> s]] : s \in StopDistances}
    /\ outcome = [op |-> "initialize", error |-> NoError, at |-> "", lot |-> 0]
    /\ now = 0
    /\ ret = NoReturn("initialize")
    /\ daily_limit_hit = FALSE
    /\ drawdown_hit = FALSE
    /\ pm = NewPositionManager
    /\ tick_buffer = <<>>
    /\ venue = NoPos
    /\ mon = NotMonitored
    /\ feed_last = Quiet
    /\ shifts = 0
    /\ account = risk.starting_balance
    /\ today = Today(0)
    /\ current_date = Today(0)
    /\ db = NewStore
    /\ iter = NotRun
    /\ opened_today = 0
    /\ polls = 0

NextConfig ==
    \E balance \in LaterBalances, dt \in Steps, found \in BOOLEAN :
        RunConfigured(balance, dt, found)

SpecConfig == InitConfig /\ [][NextConfig]_vars

\* a configuration or an account the loop cannot run on
InvalidConfiguration ==
    \/ market.config.stop_loss_pips <= 0
    \/ risk.starting_balance = 0

\* C35: a run whose stop-loss distance is zero or negative, or whose lifetime
\* starting balance is zero, never gets to an iteration of the loop, and no
\* iteration of any run ends in a division by zero.
C35_InvalidConfigurationNeverRuns ==
    /\ InvalidConfiguration => polls = 0
    /\ outcome.error = NoError

-----------------------------------------------------------------------------
(* ScoreCalculator (src/score_calculator.py).  Scores are in hundredths of  *)
(* a point (9000 is 90.0); a price level is a whole number of pips.  With   *)
(* the VWAP at 1.0000 and the levels of Fibonacci and of the store on whole *)
(* pips every quotient below is exact; for other VWAPs the VWAP component   *)
(* is cut to the hundredth below.                                           *)

VwapMax          == 30       \* vwap_max_points
RoundMax         == 25       \* round_number_max_points
FibMax           == 20       \* fibonacci_max_points
DomMax           == 15       \* dom_volume_max_points
DeltaMax         == 10       \* delta_imbalance_max_points
DomThreshold     == 1500     \* dom_volume_threshold
DeltaThreshold   == 8000     \* delta_imbalance_threshold
FibProximityPips == 5        \* fibonacci_proximity_pips
DomTolerancePips == 5        \* tolerance of the historical volume lookup
KeepZoneScore    == 50       \* scan_all_zones keeps the zones of this score or more
DefaultRangePips == 20       \* scan_all_zones(range_pips=20)

\* (variant: the band from 0.1% to 0.2% rises by half the maximum)
calculate_vwap_score_steep(price_level, vwap) ==
    IF vwap = 0 THEN 0
    ELSE LET n == Abs(price_level - vwap) * 1000
         IN  IF n >= 3 * vwap THEN VwapMax * 100
             ELSE IF n >= 2 * vwap
               THEN VwapMax * 50 + (VwapMax * 50 * (n - 2 * vwap)) \div vwap
             ELSE IF n >= vwap
               THEN VwapMax * 17 + (VwapMax * 50 * (n - vwap)) \div vwap
             ELSE (n * VwapMax * 17) \div vwap

\* _calculate_vwap_score; the collector's VWAP is 0 (no bars) or positive
calculate_vwap_score(price_level, vwap) ==
    IF vwap = 0 THEN 0
    ELSE LET n == Abs(price_level - vwap) * 1000      \* distance_pct * 1000 * vwap
         IN  IF n >= 3 * vwap THEN VwapMax * 100
             ELSE IF n >= 2 * vwap
               THEN VwapMax * 50 + (VwapMax * 50 * (n - 2 * vwap)) \div vwap
             ELSE IF n >= vwap
               THEN VwapMax * 17 + (VwapMax * 33 * (n - vwap)) \div vwap
             ELSE (n * VwapMax * 17) \div vwap

\* _calculate_round_number_score: the last two pip digits, then the distance
\* to the nearest 50-pip level
calculate_round_number_score(price_level) ==
    LET last_two == price_level % 100
        distance == IF last_two % 50 <= 25 THEN last_two % 50 ELSE 50 - (last_two % 50)
    IN  IF last_two = 0 THEN [score |-> RoundMax * 100, type |-> "MAJOR_ROUND"]
        ELSE IF last_two = 50 THEN [score |-> RoundMax * 72, type |-> "HALF_ROUND"]
        ELSE IF last_two \in {25, 75} THEN [score |-> RoundMax * 40, type |-> "QUARTER_ROUND"]
        ELSE IF last_two % 10 = 0 THEN [score |-> RoundMax * 20, type |-> "10PIP_LEVEL"]
        ELSE IF distance <= 10
          THEN [score |-> (RoundMax * 30 * (10 - distance)) \div 10, type |-> "NEAR_ROUND"]
        ELSE [score |-> 0, type |-> "NONE"]

\* (variant: the pip count is cut, not rounded)
calculate_round_number_score_of_quote_cut(quote, half_up) ==
    LET pips_value == quote \div 10
        last_two == pips_value % 100
        distance == Abs(quote - ((quote + 250) \div 500) * 500)
    IN  IF last_two = 0
          THEN [score |-> RoundMax * 100, type |-> "MAJOR_ROUND", pips_value |-> pips_value]
        ELSE IF last_two = 50
          THEN [score |-> RoundMax * 72, type |-> "HALF_ROUND", pips_value |-> pips_value]
        ELSE IF last_two \in {25, 75}
          THEN [score |-> RoundMax * 40, type |-> "QUARTER_ROUND", pips_value |-> pips_value]
        ELSE IF last_two % 10 = 0
          THEN [score |-> RoundMax * 20, type |-> "10PIP_LEVEL", pips_value |-> pips_value]
        ELSE IF distance <= 100
          THEN [score |-> (RoundMax * 30 * (100 - distance)) \div 100,
                type |-> "NEAR_ROUND", pips_value |-> pips_value]
        ELSE [score |-> 0, type |-> "NONE", pips_value |-> pips_value]

\* _calculate_round_number_score of a five-digit quote, a price in tenths of a
\* pip: int(round(price_level / pip_value)) is the nearest pip count, and of a
\* quote half a pip between two counts the one the float quotient falls to
\* (half_up); the distance to the nearest 50-pip level is taken from the
\* price itself
calculate_round_number_score_of_quote(quote, half_up) ==
    LET pips_value == IF quote % 10 < 5 THEN quote \div 10
                      ELSE IF quote % 10 > 5 THEN quote \div 10 + 1
                      ELSE IF half_up THEN quote \div 10 + 1 ELSE quote \div 10
        last_two == pips_value % 100
        nearest_round == ((quote + 250) \div 500) * 500
        distance == Abs(quote - nearest_round)
    IN  IF last_two = 0
          THEN [score |-> RoundMax * 100, type |-> "MAJOR_ROUND", pips_value |-> pips_value]
        ELSE IF last_two = 50
          THEN [score |-> RoundMax * 72, type |-> "HALF_ROUND", pips_value |-> pips_value]
        ELSE IF last_two \in {25, 75}
          THEN [score |-> RoundMax * 40, type |-> "QUARTER_ROUND", pips_value |-> pips_value]
        ELSE IF last_two % 10 = 0
          THEN [score |-> RoundMax * 20, type |-> "10PIP_LEVEL", pips_value |-> pips_value]
        ELSE IF distance <= 100
          THEN [score |-> (RoundMax * 30 * (100 - distance)) \div 100,
                type |-> "NEAR_ROUND", pips_value |-> pips_value]
        ELSE [score |-> 0, type |-> "NONE", pips_value |-> pips_value]

\* the weights of the Fibonacci levels, in hundredths
FibWeight(level_name) ==
    CASE level_name = "0.618" -> 100
      [] level_name = "0.5"   -> 85
      [] level_name = "0.382" -> 75
      [] level_name = "0.786" -> 70
      [] level_name = "0.236" -> 60
      [] OTHER                -> 50

\* _calculate_fibonacci_score over the levels of the snapshot, in the order of
\* the dict; a later level replaces the best only with a higher score
calculate_fibonacci_score(price_level, fib_levels) ==
    LET score(i) ==
            LET distance == Abs(price_level - fib_levels[i].price)
            IN  IF distance <= FibProximityPips
                  THEN (FibMax * FibWeight(fib_levels[i].name)
                           * (FibProximityPips - distance)) \div FibProximityPips
                  ELSE 0
        best == IF fib_levels = <<>> THEN 0
                ELSE SeqMax([i \in 1..Len(fib_levels) |-> score(i)])
    IN  IF best = 0 THEN [score |-> 0, level |-> ""]
        ELSE [score |-> best,
              level |-> fib_levels[CHOOSE i \in 1..Len(fib_levels) :
                                      /\ score(i) = best
                                      /\ \A j \in 1..(i - 1) : score(j) < best].name]

\* DOMLogger.get_avg_volume_at_level: the sum and the count of the stored
\* snapshots within the tolerance of the level (all of the last 20 days)
NoStoreGiven == [kind |-> "none"]

get_avg_volume_at_level(store, price_level, tolerance) ==
    LET near == [i \in 1..Len(store.snapshots) |->
                    IF Abs(store.snapshots[i].price_level - price_level) <= tolerance
                      THEN 1 ELSE 0]
        vol  == [i \in 1..Len(store.snapshots) |->
                    near[i] * store.snapshots[i].total_volume]
    IN  [sum |-> Sum(vol), count |-> Sum(near)]

\* _calculate_dom_score; without a store the score is drawn from
\* uniform(0, 0.4 * DOM_MAX), with one a failing query scores 0
calculate_dom_score(store, price_level, draw) ==
    IF store = NoStoreGiven THEN draw
    ELSE IF store.raises THEN 0
    ELSE LET avg == get_avg_volume_at_level(store, price_level, DomTolerancePips)
             s   == avg.sum
             c   == avg.count
         IN  IF c = 0 \/ s <= 0 THEN 0
             ELSE IF s >= DomThreshold * c THEN DomMax * 100
             ELSE IF s * 10 >= DomThreshold * 6 * c
               THEN DomMax * 60
                      + (DomMax * 40 * (s * 10 - DomThreshold * 6 * c))
                            \div (DomThreshold * 4 * c)
             ELSE (s * 10 * DomMax * 60) \div (DomThreshold * 6 * c)

\* (variant: the sign of the delta is kept)
calculate_delta_score_signed(delta) ==
    (delta * 2 * DeltaMax * 50) \div DeltaThreshold

\* _calculate_delta_score
calculate_delta_score(delta) ==
    LET abs_delta == Abs(delta)
    IN  IF abs_delta >= DeltaThreshold THEN DeltaMax * 100
        ELSE IF abs_delta * 2 >= DeltaThreshold
          THEN DeltaMax * 50 + (DeltaMax * 50 * (abs_delta * 2 - DeltaThreshold))
                                   \div DeltaThreshold
        ELSE (abs_delta * 2 * DeltaMax * 50) \div DeltaThreshold

\* _determine_zone_type: the first component of the breakdown with the highest
\* score names the zone
determine_zone_type(breakdown, round_type, fib_level) ==
    LET keys == <<"vwap", "round_number", "fibonacci", "dom", "delta">>
        max_score == SeqMax([i \in 1..5 |-> breakdown[keys[i]]])
        max_component == keys[CHOOSE i \in 1..5 :
                                 /\ breakdown[keys[i]] = max_score
                                 /\ \A j \in 1..(i - 1) : breakdown[keys[j]] < max_score]
    IN  IF max_component = "vwap" /\ max_score >= VwapMax * 80 THEN "VWAP_REVERSION"
        ELSE IF max_component = "round_number" /\ round_type # "NONE"
          THEN IF round_type = "MAJOR_ROUND" THEN "INSTITUTIONAL_ROUND"
               ELSE "ROUND_" \o round_type
        ELSE IF max_component = "fibonacci" /\ fib_level # "" THEN "FIB_" \o fib_level
        ELSE IF max_component = "dom" THEN "DOM_CLUSTER"
        ELSE IF max_component = "delta" THEN "DELTA_IMBALANCE"
        ELSE IF Cardinality({i \in 1..5 : breakdown[keys[i]] > 1500}) >= 2
          THEN "CONFLUENCE_ZONE"
        ELSE "MIXED"

\* (variant: without a VWAP no component is scored)
calculate_score_needs_vwap(price_level, md, draw) ==
    LET round_number == calculate_round_number_score(price_level)
        fibonacci == calculate_fibonacci_score(price_level, md.fib_levels)
        scored == md.vwap # 0
        breakdown ==
            [vwap         |-> calculate_vwap_score(price_level, md.vwap),
             round_number |-> IF scored THEN round_number.score ELSE 0,
             fibonacci    |-> IF scored THEN fibonacci.score ELSE 0,
             dom          |-> IF scored
                                THEN calculate_dom_score(md.store, price_level, draw)
                                ELSE 0,
             delta        |-> IF scored THEN calculate_delta_score(md.bid_ask_delta)
                              ELSE 0]
        sum == breakdown.vwap + breakdown.round_number + breakdown.fibonacci
                 + breakdown.dom + breakdown.delta
        direction == determine_direction(price_level, md)
        trigger_price == calculate_trigger_price(price_level, direction)
    IN  [price           |-> price_level,
         score           |-> IF sum < 10000 THEN sum ELSE 10000,
         direction       |-> direction,
         score_breakdown |-> breakdown,
         zone_type       |-> determine_zone_type(breakdown, round_number.type,
                                                 fibonacci.level),
         trigger_price   |-> trigger_price,
         stop_loss       |-> calculate_stop_loss(trigger_price, direction)]

\* calculate_score: the ExecutionZone of a price level; draw is what the
\* random generator returns when there is no store
calculate_score(price_level, md, draw) ==
    LET round_number == calculate_round_number_score(price_level)
        fibonacci == calculate_fibonacci_score(price_level, md.fib_levels)
        breakdown ==
            [vwap         |-> calculate_vwap_score(price_level, md.vwap),
             round_number |-> round_number.score,
             fibonacci    |-> fibonacci.score,
             dom          |-> calculate_dom_score(md.store, price_level, draw),
             delta        |-> calculate_delta_score(md.bid_ask_delta)]
        sum == breakdown.vwap + breakdown.round_number + breakdown.fibonacci
                 + breakdown.dom + breakdown.delta
        direction == determine_direction(price_level, md)
        trigger_price == calculate_trigger_price(price_level, direction)
    IN  [price           |-> price_level,
         score           |-> IF sum < 10000 THEN sum ELSE 10000,
         direction       |-> direction,
         score_breakdown |-> breakdown,
         zone_type       |-> determine_zone_type(breakdown, round_number.type,
                                                 fibonacci.level),
         trigger_price   |-> trigger_price,
         stop_loss       |-> calculate_stop_loss(trigger_price, direction)]

-----------------------------------------------------------------------------
(* SpecScore: calculate_score applied to every level within 20 pips of the  *)
(* bid of a snapshot drawn from the sets below.                             *)

\* the five levels _calculate_fibonacci derives from a swing of 1000 pips
\* whose 0.618 level is 1.0100, and two levels three pips either side of it
SwingLevels ==
    <<[name |-> "0.236", price |-> 10482], [name |-> "0.382", price |-> 10336],
      [name |-> "0.5", price |-> 10218],   [name |-> "0.618", price |-> 10100],
      [name |-> "0.786", price |-> 9932]>>
CloseLevels ==
    <<[name |-> "0.5", price |-> 10097], [name |-> "0.618", price |-> 10103]>>

Store(snapshots) == [kind |-> "db", raises |-> FALSE, snapshots |-> snapshots]
DeepStore  == Store(<<[price_level |-> 10100, total_volume |-> 1500]>>)
MixedStore == Store(<<[price_level |-> 10100, total_volume |-> 900],
                      [price_level |-> 10102, total_volume |-> 1500]>>)
ThinStore  == Store(<<[price_level |-> 10100, total_volume |-> 500]>>)
DownStore  == [Store(<<>>) EXCEPT !.raises = TRUE]

\* uniform(0, 6): the ends and the middle of the range
Draws == {0, 300, 600}

ScoreMarkets ==
    [bid           : {10060, 10100},
     vwap          : {0, 10000, 10090},
     bid_ask_delta : {-9000, -5000, 0, 3000, 8000},
     fib_levels    : {<<>>, SwingLevels, CloseLevels},
     store         : {NoStoreGiven, Store(<<>>), DeepStore, MixedStore, ThinStore,
                      DownStore}]

\* snapshots for the bands of the VWAP score: a VWAP of 1.0000 with the bid on
\* it and 20 pips above it (the levels 10, 20 and 30 pips away are the band
\* boundaries), a VWAP of 1.0600 with the bid 20 pips below it, and a VWAP of
\* 0.9375 with the bid on 0.9400 (25 pips away, two thirds into the band from
\* 0.2% to 0.3%)
BandMarkets ==
    {[bid |-> b[1], vwap |-> b[2], bid_ask_delta |-> 0, fib_levels |-> <<>>,
      store |-> Store(<<>>)] :
        b \in {<<10000, 10000>>, <<10020, 10000>>, <<10580, 10600>>,
                <<9400, 9375>>}}

engineVars == <<risk, now, riskObs, pmVars,
                account, today, current_date, db, iter, opened_today, polls>>

EngineInit ==
    /\ risk = initialize(1000)
    /\ now = 0
    /\ ret = NoReturn("initialize")
    /\ daily_limit_hit = FALSE
    /\ drawdown_hit = FALSE
    /\ pm = NewPositionManager
    /\ tick_buffer = <<>>
    /\ venue = NoPos
    /\ mon = NotMonitored
    /\ feed_last = Quiet
    /\ shifts = 0
    /\ account = risk.starting_balance
    /\ today = Today(0)
    /\ current_date = Today(0)
    /\ db = NewStore
    /\ iter = NotRun
    /\ opened_today = 0
    /\ polls = 0

Score(pip_offset, draw) ==
    /\ outcome' = [op   |-> "calculate_score",
                   zone |-> calculate_score(market.bid + pip_offset, market, draw)]
    /\ UNCHANGED <<engineVars, market>>

InitScore ==
    /\ EngineInit
    /\ market \in ScoreMarkets \cup BandMarkets
    /\ outcome = NoOutcome

NextScore ==
    \E pip_offset \in (-DefaultRangePips)..DefaultRangePips :
      \E draw \in (IF market.store = NoStoreGiven THEN Draws ELSE {0}) :
        Score(pip_offset, draw)

SpecScore == InitScore /\ [][NextScore]_vars

\* C20: for every level and snapshot, with or without a store, each of the
\* five components of the score lies between 0 and its maximum (30, 25, 20, 15
\* and 10 points) and the total is the sum of the five, capped at 100 points.
C20_ComponentsBoundedTotalCapped ==
    outcome.op = "calculate_score" =>
        LET b == outcome.zone.score_breakdown
            sum == b.vwap + b.round_number + b.fibonacci + b.dom + b.delta
        IN  /\ b.vwap >= 0 /\ b.vwap <= 3000
            /\ b.round_number >= 0 /\ b.round_number <= 2500
            /\ b.fibonacci >= 0 /\ b.fibonacci <= 2000
            /\ b.dom >= 0 /\ b.dom <= 1500
            /\ b.delta >= 0 /\ b.delta <= 1000
            /\ outcome.zone.score = (IF sum < 10000 THEN sum ELSE 10000)
            /\ outcome.zone.score <= 10000

\* C20 witness: a level that takes every component to its maximum, scored
\* from a negative delta.
C20_Witness ==
    /\ outcome.op = "calculate_score"
    /\ market.bid_ask_delta < 0
    /\ outcome.zone.score_breakdown
          = [vwap |-> 3000, round_number |-> 2500, fibonacci |-> 2000,
             dom |-> 1500, delta |-> 1000]
    /\ outcome.zone.score = 10000

\* C21: for a fixed non-zero VWAP, of two levels scored one after the other
\* the one at least as far from the VWAP has at least the VWAP score of the
\* other, the levels on the band boundaries (0.1%, 0.2% and 0.3% of the VWAP
\* away) included, and a level 0.3% or more away has the maximum of 30 points.
C21_VwapScoreMonotone ==
    [][(/\ outcome.op = "calculate_score"
        /\ outcome'.op = "calculate_score"
        /\ market.vwap # 0)
       => LET near == Abs(outcome.zone.price - market.vwap)
              far  == Abs(outcome'.zone.price - market.vwap)
          IN  /\ near <= far
                    => outcome.zone.score_breakdown.vwap
                          <= outcome'.zone.score_breakdown.vwap
              /\ far * 1000 >= 3 * market.vwap
                    => outcome'.zone.score_breakdown.vwap = 3000]_vars

\* C21 witness: with the VWAP at 1.0000 the level 1.0020, on the boundary of
\* 0.2%, has been scored at half the maximum.
C21_Witness ==
    /\ outcome.op = "calculate_score"
    /\ market.vwap = 10000
    /\ outcome.zone.price = 10020
    /\ outcome.zone.score_breakdown.vwap = 1500

\* C22: with the VWAP at 1.0600 the level 1.0580, 20 pips away, has a VWAP
\* score strictly between 15 and 30 points.
C22_TwentyPipsScoreMidHigh ==
    (/\ outcome.op = "calculate_score"
     /\ market.vwap = 10600
     /\ outcome.zone.price = 10580)
    => /\ outcome.zone.score_breakdown.vwap > 1500
       /\ outcome.zone.score_breakdown.vwap < 3000

\* C24: a level whose pip count ends in 00 is classified INSTITUTIONAL_ROUND
\* whenever none of the other four components scores more than the 25 points
\* of the round number, a component scoring exactly 25 included.
C24_RoundHundredIsInstitutional ==
    (/\ outcome.op = "calculate_score"
     /\ outcome.zone.price % 100 = 0
     /\ outcome.zone.score_breakdown.vwap <= 2500
     /\ outcome.zone.score_breakdown.fibonacci <= 2500
     /\ outcome.zone.score_breakdown.dom <= 2500
     /\ outcome.zone.score_breakdown.delta <= 2500)
    => /\ outcome.zone.score_breakdown.round_number = 2500
       /\ outcome.zone.zone_type = "INSTITUTIONAL_ROUND"

\* C25: the label of a zone is one of VWAP_REVERSION, INSTITUTIONAL_ROUND,
\* FIB_<level>, DOM_CLUSTER, DELTA_IMBALANCE, CONFLUENCE_ZONE and MIXED; a
\* component label is that of a component with the highest score, and
\* CONFLUENCE_ZONE is given only when at least two components exceed 15.
C25_LabelOfHighestComponent ==
    outcome.op = "calculate_score" =>
        LET b == outcome.zone.score_breakdown
            label == outcome.zone.zone_type
            highest == SeqMax(<<b.vwap, b.round_number, b.fibonacci, b.dom, b.delta>>)
            above == {k \in {"vwap", "round_number", "fibonacci", "dom", "delta"} :
                         b[k] > 1500}
        IN  /\ label \in {"VWAP_REVERSION", "INSTITUTIONAL_ROUND", "DOM_CLUSTER",
                           "DELTA_IMBALANCE", "CONFLUENCE_ZONE", "MIXED"}
                          \cup {"FIB_" \o n : n \in {"0.236", "0.382", "0.5",
                                                       "0.618", "0.786"}}
            /\ label = "VWAP_REVERSION" => b.vwap = highest
            /\ label = "INSTITUTIONAL_ROUND" => b.round_number = highest
            /\ label = "DOM_CLUSTER" => b.dom = highest
            /\ label = "DELTA_IMBALANCE" => b.delta = highest
            /\ label = "CONFLUENCE_ZONE" => Cardinality(above) >= 2

\* C26: two calls of calculate_score, one after the other, with the same
\* level, snapshot and store (or none) return the same zone.
C26_SameInputsSameZone ==
    [][(/\ outcome.op = "calculate_score"
        /\ outcome'.op = "calculate_score"
        /\ outcome'.zone.price = outcome.zone.price)
       => outcome'.zone = outcome.zone]_vars

\* C27: with a zero VWAP the VWAP component is 0, with no Fibonacci levels the
\* Fibonacci component is 0; a zone is returned all the same, and its other
\* four components are those of the same level scored with a VWAP (with
\* Fibonacci levels) in the snapshot and the same store or the same draw.
C27_MissingInputZeroesItsComponentOnly ==
    outcome.op = "calculate_score" =>
        LET zone == outcome.zone
            b == zone.score_breakdown
            with(md) == calculate_score(zone.price, md, b.dom).score_breakdown
        IN  /\ market.vwap = 0 =>
                  /\ b.vwap = 0
                  /\ \A vwap \in {10000, 10090} :
                        LET w == with([market EXCEPT !.vwap = vwap])
                        IN  /\ w.round_number = b.round_number
                            /\ w.fibonacci = b.fibonacci
                            /\ w.dom = b.dom
                            /\ w.delta = b.delta
            /\ market.fib_levels = <<>> =>
                  /\ b.fibonacci = 0
                  /\ \A fib_levels \in {SwingLevels, CloseLevels} :
                        LET w == with([market EXCEPT !.fib_levels = fib_levels])
                        IN  /\ w.vwap = b.vwap
                            /\ w.round_number = b.round_number
                            /\ w.dom = b.dom
                            /\ w.delta = b.delta
            /\ zone.score = (IF b.vwap + b.round_number + b.fibonacci + b.dom + b.delta
                                  < 10000
                              THEN b.vwap + b.round_number + b.fibonacci + b.dom + b.delta
                              ELSE 10000)

\* C27 witness: the level 1.0100 scored from a snapshot with neither a VWAP
\* nor Fibonacci levels: 25 points for the round number, 15 for the depth.
C27_Witness ==
    /\ outcome.op = "calculate_score"
    /\ market.vwap = 0
    /\ market.fib_levels = <<>>
    /\ outcome.zone.score_breakdown.vwap = 0
    /\ outcome.zone.score_breakdown.fibonacci = 0
    /\ outcome.zone.score_breakdown.round_number = 2500
    /\ outcome.zone.score_breakdown.dom = 1500

-----------------------------------------------------------------------------
(* SpecRound: the round-number score of the five-digit quotes from 1.07700  *)
(* to 1.08600, one after the other.                                         *)

Quotes == 107700..108600

ScoreQuote(quote, half_up) ==
    /\ market' = [quote |-> quote]
    /\ outcome' = [op    |-> "calculate_round_number_score",
                   round |-> calculate_round_number_score_of_quote(quote, half_up)]
    /\ UNCHANGED engineVars

InitRound ==
    /\ EngineInit
    /\ market = NoMarket
    /\ outcome = NoOutcome

NextRound ==
    \E quote \in Quotes : \E half_up \in BOOLEAN : ScoreQuote(quote, half_up)

SpecRound == InitRound /\ [][NextRound]_vars

\* C23 as stated: the round-number score depends only on the integer pip
\* count of the level, so two levels of the same pip count scored one after
\* the other have the same score.
C23_RoundScoreByPipCount ==
    [][(/\ outcome.op = "calculate_round_number_score"
        /\ outcome'.op = "calculate_round_number_score"
        /\ outcome.round.pips_value = outcome'.round.pips_value)
       => outcome.round.score = outcome'.round.score]_vars

\* C23 amended: the pip count is the level rounded to whole pips; a count
\* ending in 00 scores exactly 25, in 50 exactly 18, in 25 or 75 exactly 10,
\* any other multiple of 10 exactly 5; every other level scores 0 unless the
\* price itself is within 10 pips of a 50-pip level, where the score is
\* 7.5 * (1 - distance / 10 pips), linear in the distance of the price and
\* below 30% of the maximum.
C23_RoundScoreByClassAndDistance ==
    outcome.op = "calculate_round_number_score" =>
        LET quote == market.quote
            pips_value == outcome.round.pips_value
            last_two == pips_value % 100
            to_fifty == quote % 500
            distance == IF to_fifty <= 250 THEN to_fifty ELSE 500 - to_fifty
            score == outcome.round.score
        IN  /\ Abs(10 * pips_value - quote) <= 5
            /\ last_two = 0 => score = 2500
            /\ last_two = 50 => score = 1800
            /\ last_two \in {25, 75} => score = 1000
            /\ last_two \in {10, 20, 30, 40, 60, 70, 80, 90} => score = 500
            /\ (last_two % 10 # 0 /\ last_two \notin {25, 75})
                  => IF distance <= 100
                       THEN /\ score * 100 <= 750 * (100 - distance)
                            /\ score * 100 > 750 * (100 - distance) - 100
                            /\ score < 750
                       ELSE score = 0

\* C23 witness: 1.08094, of pip count 10809 and 9.4 pips from 1.0800, has been
\* scored 0.45 points.
C23_Witness ==
    /\ outcome.op = "calculate_round_number_score"
    /\ market.quote = 108094
    /\ outcome.round.pips_value = 10809
    /\ outcome.round.score = 45

-----------------------------------------------------------------------------
(* SignalGenerator (src/core/signal_generator.py).  The time of day is in   *)
(* seconds since midnight, the prices of the second instrument in           *)
(* thousandths, scores and confidences in hundredths of a point.            *)

MinScoreThreshold  == 90       \* min_score_threshold
StopHuntStart      == 28800    \* time(8, 0)
StopHuntEnd        == 30600    \* time(8, 30)
StopHuntMinPips    == 5        \* a break of more than 5 pips ...
StopHuntMaxPips    == 12       \* ... and of no more than 12
StopHuntScore      == 92       \* score and confidence of a stop-hunt signal
StopHuntStopPips   == 15       \* its stop, from the current price
CorrelationBonus   == 5        \* adjusted_confidence += 5
CorrelationPenalty == 15       \* adjusted_confidence -= 15
LondonStart        == 7
LondonEnd          == 16
NewYorkStart       == 12
NewYorkEnd         == 21
DxyMinBars         == 5        \* fewer one-minute bars are no data
DxyFlatBand        == 1        \* a change within 0.001 either way is FLAT

NoZone == [price |-> 0, score |-> 0]
NoBar  == [high |-> 0, low |-> 0]

\* (variant: no blackout period is looked at)
is_blackout_period_never(g, tod) ==
    FALSE

\* _is_blackout_period: a period that does not parse is skipped
is_blackout_period(g, tod) ==
    \E i \in DOMAIN g.blackout_periods :
        /\ g.blackout_periods[i].parses
        /\ g.blackout_periods[i].start <= tod
        /\ tod <= g.blackout_periods[i].end

\* _is_active_session: the hour lies in the London or in the New York session
is_active_session(g, tod) ==
    LET current_hour == tod \div 3600
    IN  \/ ~g.active_sessions_only
        \/ (LondonStart <= current_hour /\ current_hour < LondonEnd)
        \/ (NewYorkStart <= current_hour /\ current_hour < NewYorkEnd)

\* (variant: a break of any size above the minimum is taken for a stop hunt)
check_stop_hunt_pattern_any_break(md, tod, daily_bar, fp) ==
    IF ~(StopHuntStart <= tod /\ tod <= StopHuntEnd) \/ daily_bar = NoBar THEN NoSignal
    ELSE IF md.bid - daily_bar.high > StopHuntMinPips
      THEN [direction |-> "SHORT", zone_price |-> daily_bar.high,
            score |-> StopHuntScore * 100, zone_type |-> "STOP_HUNT_HIGH",
            entry_price |-> md.bid, stop_loss |-> md.bid + StopHuntStopPips,
            confidence |-> StopHuntScore * 100, correlation_confirmed |-> TRUE,
            status |-> "STOP_HUNT", dxy_trend |-> "NONE"]
    ELSE NoSignal

\* _check_stop_hunt_pattern.  The two comparisons are made on binary
\* fractions: where the break is exactly 5 or exactly 12 pips the difference
\* the code computes is the exact one or one a rounding above it (fp).
check_stop_hunt_pattern(md, tod, daily_bar, fp) ==
    LET above == md.bid - daily_bar.high
        below == daily_bar.low - md.bid
        over(b)   == b > StopHuntMinPips \/ (b = StopHuntMinPips /\ fp = "above")
        within(b) == b < StopHuntMaxPips \/ (b = StopHuntMaxPips /\ fp = "exact")
    IN  IF ~(StopHuntStart <= tod /\ tod <= StopHuntEnd) THEN NoSignal
        ELSE IF daily_bar = NoBar THEN NoSignal
        ELSE IF over(above)
          THEN IF within(above)
                 THEN [direction |-> "SHORT", zone_price |-> daily_bar.high,
                       score |-> StopHuntScore * 100, zone_type |-> "STOP_HUNT_HIGH",
                       entry_price |-> md.bid,
                       stop_loss |-> md.bid + StopHuntStopPips,
                       confidence |-> StopHuntScore * 100,
                       correlation_confirmed |-> TRUE,
                       status |-> "STOP_HUNT", dxy_trend |-> "NONE"]
                 ELSE NoSignal
        ELSE IF over(below)
          THEN IF within(below)
                 THEN [direction |-> "LONG", zone_price |-> daily_bar.low,
                       score |-> StopHuntScore * 100, zone_type |-> "STOP_HUNT_LOW",
                       entry_price |-> md.bid,
                       stop_loss |-> md.bid - StopHuntStopPips,
                       confidence |-> StopHuntScore * 100,
                       correlation_confirmed |-> TRUE,
                       status |-> "STOP_HUNT", dxy_trend |-> "NONE"]
                 ELSE NoSignal
        ELSE NoSignal

\* scan_all_zones: the zone of every level within range_pips of the bid, by
\* pip offset (a table, computed once); get_best_zone reads the kept ones
scan_all_zones(md, range_pips) ==
    [pip_offset \in (-range_pips)..range_pips |->
        calculate_score(md.bid + pip_offset, md, 0)] @@ EmptyMap

\* (variant: the zone nearest to the bid that is kept)
get_best_zone_nearest(zones, min_score) ==
    LET kept == {k \in DOMAIN zones : zones[k].score >= KeepZoneScore * 100}
    IN  IF kept = {} THEN NoZone
        ELSE zones[CHOOSE k \in kept : \A j \in kept : Abs(k) < Abs(j) \/ (Abs(k) = Abs(j) /\ k <= j)]

\* get_best_zone over the zones of scan_all_zones(market_data): the first of
\* the kept zones sorted by score, highest first (the sort is stable, so of
\* equal scores the lowest level), if it reaches min_score
get_best_zone(zones, min_score) ==
    LET kept == {k \in DOMAIN zones : zones[k].score >= KeepZoneScore * 100}
    IN  IF kept = {} THEN NoZone
        ELSE LET first == CHOOSE k \in kept :
                              \A j \in kept :
                                  \/ zones[j].score < zones[k].score
                                  \/ (zones[j].score = zones[k].score /\ k <= j)
             IN  IF zones[first].score >= min_score * 100 THEN zones[first] ELSE NoZone

\* (variant: missing data of the second instrument is a conflict)
check_correlation_strict(g, direction, dxy) ==
    IF ~g.correlation_enabled
      THEN [confirmed |-> TRUE, status |-> "DISABLED", dxy_trend |-> "NONE"]
    ELSE [confirmed |-> FALSE, status |-> "CONFLICTING", dxy_trend |-> "NONE"]

\* _check_correlation
check_correlation(g, direction, dxy) ==
    IF ~g.correlation_enabled
      THEN [confirmed |-> TRUE, status |-> "DISABLED", dxy_trend |-> "NONE"]
    ELSE IF dxy.raises
      THEN [confirmed |-> TRUE, status |-> "ERROR", dxy_trend |-> "NONE"]
    ELSE IF ~dxy.selectable
      THEN [confirmed |-> TRUE, status |-> "UNAVAILABLE", dxy_trend |-> "NONE"]
    ELSE IF dxy.bars < DxyMinBars
      THEN [confirmed |-> TRUE, status |-> "NO_DATA", dxy_trend |-> "NONE"]
    ELSE LET dxy_change == dxy.close - dxy.open
             dxy_trend == IF dxy_change > DxyFlatBand THEN "UP"
                          ELSE IF dxy_change < -DxyFlatBand THEN "DOWN"
                          ELSE "FLAT"
             confirming == IF direction = "LONG" THEN "DOWN" ELSE "UP"
         IN  IF dxy_trend = confirming
               THEN [confirmed |-> TRUE, status |-> "CONFIRMED", dxy_trend |-> dxy_trend]
             ELSE IF dxy_trend = "FLAT"
               THEN [confirmed |-> TRUE, status |-> "NEUTRAL", dxy_trend |-> dxy_trend]
             ELSE [confirmed |-> FALSE, status |-> "CONFLICTING", dxy_trend |-> dxy_trend]

\* (variant: the confidence is not compared with the threshold again)
passes_threshold_always(adjusted_confidence, min_score) ==
    TRUE

\* `if adjusted_confidence < self.min_score: return None`
passes_threshold(adjusted_confidence, min_score) ==
    adjusted_confidence >= min_score * 100

\* (variant: a conflict costs nothing)
adjust_confidence_flat(score, confirmed) ==
    score + CorrelationBonus * 100

\* the correlation adjustment of scan_and_generate
adjust_confidence(score, confirmed) ==
    IF confirmed THEN score + CorrelationBonus * 100
    ELSE score - CorrelationPenalty * 100

\* What a scan leaves to observe: the signal (or NoSignal), the statement
\* that returned (at), the zone get_best_zone gave and the verdict of the
\* correlation check where they were computed.
Scanned(signal, at, zone, correlation) ==
    [signal |-> signal, at |-> at, zone |-> zone, correlation |-> correlation]

NotChecked == [confirmed |-> FALSE, status |-> "", dxy_trend |-> "NONE"]

\* scan_and_generate(market_data) of a generator configured as g, at the time
\* of day tod, with yesterday's daily bar and the second instrument as the
\* terminal returns them.  zones is scan_all_zones(market_data), which
\* get_best_zone calls with its default range.
SignalGenerator_scan_and_generate(g, md, tod, daily_bar, dxy, fp, zones) ==
    IF is_blackout_period(g, tod) THEN Scanned(NoSignal, "BLACKOUT", NoZone, NotChecked)
    ELSE IF ~is_active_session(g, tod)
      THEN Scanned(NoSignal, "SESSION", NoZone, NotChecked)
    ELSE LET stop_hunt_signal == check_stop_hunt_pattern(md, tod, daily_bar, fp)
             best_zone == get_best_zone(zones, g.min_score)
             distance == Abs(best_zone.price - md.bid)
             correlation_result == check_correlation(g, best_zone.direction, dxy)
             adjusted_confidence ==
                 adjust_confidence(best_zone.score, correlation_result.confirmed)
         IN  IF stop_hunt_signal # NoSignal
               THEN Scanned(stop_hunt_signal, "STOP_HUNT", NoZone, NotChecked)
             ELSE IF best_zone = NoZone
               THEN Scanned(NoSignal, "NO_ZONE", NoZone, NotChecked)
             ELSE IF \/ distance > g.scan_range_pips
                     \/ (distance = g.scan_range_pips /\ fp = "above")
               THEN Scanned(NoSignal, "TOO_FAR", best_zone, NotChecked)
             ELSE IF ~passes_threshold(adjusted_confidence, g.min_score)
               THEN Scanned(NoSignal, "LOW_CONFIDENCE", best_zone, correlation_result)
             ELSE Scanned([direction   |-> best_zone.direction,
                           zone_price  |-> best_zone.price,
                           score       |-> best_zone.score,
                           zone_type   |-> best_zone.zone_type,
                           entry_price |-> best_zone.trigger_price,
                           stop_loss   |-> best_zone.stop_loss,
                           confidence  |-> adjusted_confidence,
                           correlation_confirmed |-> correlation_result.confirmed,
                           status      |-> correlation_result.status,
                           dxy_trend   |-> correlation_result.dxy_trend],
                          "ZONE", best_zone, correlation_result)

-----------------------------------------------------------------------------
(* SpecSig: scan_and_generate applied to a snapshot, a clock, a             *)
(* configuration, a daily bar and a second instrument drawn from the sets   *)
(* below.  The scored market has its VWAP at 1.0000 and the 0.618 level of  *)
(* the swing at the round number 1.0100.                                    *)

Snapshots ==
    [bid : {10090, 10110}, vwap : {10000}, bid_ask_delta : {8000, -6000, 0},
     fib_levels : {SwingLevels}, store : {DeepStore, MixedStore}]
    \cup
    [bid : {10120, 10115}, vwap : {10000}, bid_ask_delta : {8000},
     fib_levels : {SwingLevels}, store : {DeepStore}]
    \cup
    [bid : {10090}, vwap : {0}, bid_ask_delta : {0},
     fib_levels : {<<>>}, store : {Store(<<>>)}]

\* 06:59:59, 08:00:00, 08:30:00, 08:30:01 and 21:00:00
Clocks == {25199, StopHuntStart, StopHuntEnd, StopHuntEnd + 1, 75600}

\* no blackout, or one entry that does not parse and the period 08:00-08:10
BlackoutLists ==
    {<<>>,
     <<[parses |-> FALSE, start |-> 0, end |-> 0],
       [parses |-> TRUE, start |-> StopHuntStart, end |-> StopHuntStart + 600]>>}

Thresholds == {<<MinScoreThreshold, ScanRangePips>>,
               <<MinScoreThreshold - 10, ScanRangePips>>,
               <<MinScoreThreshold, ScanRangePips - 10>>}

\* the second instrument: not selectable under any name, four bars only, a
\* query that raises, and ten bars that rose, stayed or fell
Instrument(selectable, raises, bars, close) ==
    [selectable |-> selectable, raises |-> raises, bars |-> bars,
     open |-> 100000, close |-> close]
Instruments ==
    {Instrument(FALSE, FALSE, 0, 0), Instrument(TRUE, FALSE, 4, 100000),
     Instrument(TRUE, TRUE, 0, 0),
     Instrument(TRUE, FALSE, 10, 100002), Instrument(TRUE, FALSE, 10, 100001),
     Instrument(TRUE, FALSE, 10, 99998)}

\* yesterday's bar, by how far the bid has broken its high or its low
DailyBars(bid) ==
    {NoBar, [high |-> bid + 100, low |-> bid - 100]}
    \cup {[high |-> bid - k, low |-> bid - 300] : k \in {5, 6, 12, 13}}
    \cup {[high |-> bid + 300, low |-> bid + k] : k \in {5, 12, 13}}

Scan(fp) ==
    /\ market # NoMarket
    /\ \E zones \in {scan_all_zones(market, DefaultRangePips)} :
         outcome' = [op |-> "scan_and_generate"] @@
                    SignalGenerator_scan_and_generate(
                        market.config, market, market.tod, market.daily_bar,
                        market.dxy, fp, zones)
    /\ UNCHANGED <<engineVars, market>>

Market(snap, tod, daily_bar, dxy, g) ==
    [bid |-> snap.bid, vwap |-> snap.vwap, bid_ask_delta |-> snap.bid_ask_delta,
     fib_levels |-> snap.fib_levels, store |-> snap.store,
     tod |-> tod, daily_bar |-> daily_bar, dxy |-> dxy, config |-> g]

Config(blackout_periods, active_sessions_only, correlation_enabled, th) ==
    [blackout_periods |-> blackout_periods,
     active_sessions_only |-> active_sessions_only,
     correlation_enabled |-> correlation_enabled,
     min_score |-> th[1], scan_range_pips |-> th[2]]

\* the clock, the blackout list, the session switch and the daily bar vary
\* under the default thresholds, over a market with a zone of 100 points
\* above or below the bid or with no zone at all
TimedMarkets ==
    {Market(snap, tod, daily_bar, dxy,
            Config(blackout_periods, active_sessions_only, TRUE,
                   <<MinScoreThreshold, ScanRangePips>>)) :
        snap \in {x \in Snapshots : x.bid_ask_delta # -6000 /\ x.store # MixedStore
                                      /\ x.bid \in {10090, 10110}},
        tod \in Clocks,
        daily_bar \in {NoBar} \cup UNION {DailyBars(bid) : bid \in {10090, 10110}},
        dxy \in {Instrument(FALSE, FALSE, 0, 0), Instrument(TRUE, FALSE, 10, 100002),
                 Instrument(TRUE, FALSE, 10, 99998)},
        blackout_periods \in BlackoutLists,
        active_sessions_only \in BOOLEAN}

\* the snapshot, the thresholds and the second instrument vary at 08:30:01
\* and at 12:30:00, with no blackout and no daily bar
ScoredMarkets ==
    {Market(snap, tod, NoBar, dxy,
            Config(<<>>, TRUE, correlation_enabled, th)) :
        snap \in Snapshots, tod \in {StopHuntEnd + 1, 45000}, th \in Thresholds,
        dxy \in Instruments, correlation_enabled \in BOOLEAN}

InitSig ==
    /\ EngineInit
    /\ outcome = NoOutcome
    /\ market \in
          {m \in TimedMarkets :
              \/ m.daily_bar = NoBar
              \/ /\ StopHuntStart <= m.tod /\ m.tod <= StopHuntEnd
                 /\ m.daily_bar \in DailyBars(m.bid)}
          \cup
          {m \in ScoredMarkets :
              m.config.correlation_enabled \/ m.dxy = Instrument(FALSE, FALSE, 0, 0)}

NextSig ==
    \E fp \in {"exact", "above"} : Scan(fp)

SpecSig == InitSig /\ [][NextSig]_vars

-----------------------------------------------------------------------------
(* Claims about scan_and_generate, checked under SpecSig *)

C15_StopHuntBand ==
    (/\ outcome.op = "scan_and_generate"
     /\ outcome.at \notin {"BLACKOUT", "SESSION"}
     /\ market.tod >= 28800 /\ market.tod <= 30600
     /\ market.daily_bar # NoBar) =>
        LET above == market.bid - market.daily_bar.high
            below == market.daily_bar.low - market.bid
        IN  /\ (above > 5 /\ above < 12) =>
                  /\ outcome.at = "STOP_HUNT"
                  /\ outcome.signal.direction = "SHORT"
                  /\ outcome.signal.confidence = 9200
                  /\ outcome.zone = NoZone /\ outcome.correlation = NotChecked
            /\ (above <= 5 /\ below > 5 /\ below < 12) =>
                  /\ outcome.at = "STOP_HUNT"
                  /\ outcome.signal.direction = "LONG"
                  /\ outcome.signal.confidence = 9200
                  /\ outcome.zone = NoZone /\ outcome.correlation = NotChecked
            /\ ((above <= 5 \/ above >= 12) /\ (below <= 5 \/ below >= 12)) =>
                  outcome.at # "STOP_HUNT"

\* C16: a signal of the zone scan carries the zone of the highest score among
\* the levels within 20 pips either side of the bid; that score is at least
\* the threshold of the configuration and the zone lies within the scan range
\* of the configuration; when no level reaches the threshold the scan returns
\* no zone signal.
C16_BestZoneOfTheWindow ==
    (outcome.op = "scan_and_generate" /\ outcome.at \notin {"BLACKOUT", "SESSION", "STOP_HUNT"}) =>
        LET score(k) == calculate_score(market.bid + k, market, 0).score
            window == (-20)..20
        IN  /\ outcome.at = "ZONE" =>
                  /\ outcome.signal.zone_price - market.bid \in window
                  /\ outcome.signal.score = score(outcome.signal.zone_price - market.bid)
                  /\ \A k \in window : score(k) <= outcome.signal.score
                  /\ outcome.signal.score >= market.config.min_score * 100
                  /\ Abs(outcome.signal.zone_price - market.bid)
                        <= market.config.scan_range_pips
                  /\ outcome.signal.direction
                        = (IF outcome.signal.zone_price > market.bid THEN "LONG" ELSE "SHORT")
            /\ (\A k \in window : score(k) < market.config.min_score * 100) =>
                  /\ outcome.signal = NoSignal
                  /\ outcome.at = "NO_ZONE"

\* C16 witness: a signal on the 100-point zone at 1.0100 while other levels
\* of the window score 50 points or more, but less.
C16_Witness ==
    /\ outcome.op = "scan_and_generate"
    /\ outcome.at = "ZONE"
    /\ outcome.signal.zone_price = 10100
    /\ outcome.signal.score = 10000
    /\ \E k \in (-20)..20 :
          /\ market.bid + k # 10100
          /\ calculate_score(market.bid + k, market, 0).score >= 5000

\* C17: when the second instrument is unavailable (no symbol can be selected,
\* fewer than five bars, or the query raises) the signal is emitted with a
\* confidence equal to the zone's score: neither rejected nor boosted.
C17_UnavailableIsNeutral ==
    (/\ outcome.op = "scan_and_generate"
     /\ outcome.at \in {"ZONE", "LOW_CONFIDENCE"}
     /\ market.config.correlation_enabled
     /\ (market.dxy.raises \/ ~market.dxy.selectable \/ market.dxy.bars < 5)) =>
        /\ outcome.signal # NoSignal
        /\ outcome.signal.confidence = outcome.zone.score

\* C18: with the second instrument's trend known, a LONG zone gains exactly 5
\* points when the trend is DOWN or FLAT and loses exactly 15 when it is UP; a
\* SHORT zone gains 5 when it is UP or FLAT and loses 15 when it is DOWN.  The
\* result is the confidence of the signal, and the signal records the verdict
\* and the trend.
C18_CorrelationAdjustment ==
    (/\ outcome.op = "scan_and_generate"
     /\ outcome.at = "ZONE"
     /\ market.config.correlation_enabled
     /\ ~market.dxy.raises /\ market.dxy.selectable /\ market.dxy.bars >= 5) =>
        LET change == market.dxy.close - market.dxy.open
            trend == IF change > 1 THEN "UP" ELSE IF change < -1 THEN "DOWN" ELSE "FLAT"
            long == outcome.signal.direction = "LONG"
            agrees == \/ trend = "FLAT"
                      \/ (long /\ trend = "DOWN")
                      \/ (~long /\ trend = "UP")
        IN  /\ outcome.signal.score = outcome.zone.score
            /\ outcome.signal.confidence
                  = (IF agrees THEN outcome.zone.score + 500
                     ELSE outcome.zone.score - 1500)
            /\ outcome.signal.correlation_confirmed = agrees
            /\ outcome.signal.dxy_trend = trend
            /\ outcome.signal.status
                  = (IF ~agrees THEN "CONFLICTING"
                     ELSE IF trend = "FLAT" THEN "NEUTRAL" ELSE "CONFIRMED")

\* C18 witness: a LONG signal emitted against a rising second instrument, 15
\* points under its zone's score.
C18_Witness ==
    /\ outcome.op = "scan_and_generate"
    /\ outcome.at = "ZONE"
    /\ outcome.signal.direction = "LONG"
    /\ outcome.signal.dxy_trend = "UP"
    /\ ~outcome.signal.correlation_confirmed
    /\ outcome.signal.confidence = outcome.signal.score - 1500

C38_StopOnLosingSide ==
    (outcome.op = "scan_and_generate" /\ outcome.at = "ZONE"
        /\ outcome.signal # NoSignal)
    => /\ outcome.signal.direction = "LONG" => outcome.signal.stop_loss < market.bid
       /\ outcome.signal.direction = "SHORT" => outcome.signal.stop_loss > market.bid

\* C39: the confidence of every signal scan_and_generate returns, from the
\* zone scan or from the stop-hunt pattern, lies between the configured
\* minimum score and 100 points.
C39_ConfidenceWithinThresholdAndHundred ==
    (outcome.op = "scan_and_generate" /\ outcome.signal # NoSignal)
    => /\ outcome.signal.confidence >= market.config.min_score * 100
       /\ outcome.signal.confidence <= 10000

====
